---- MODULE Spec2Model ----
(***************************************************************************)
(* Authentication and session-security subsystem of mounis-bhat/starter.   *)
(*                                                                         *)
(* The store (PostgreSQL) is modelled by its tables: sessions and users.   *)
(* Every store query is one atomic step; a handler is a sequence of such   *)
(* steps, so concurrent requests interleave between queries.  Time is a    *)
(* discrete clock `now`; timestamps are clock readings.                    *)
(***************************************************************************)
EXTENDS Integers, Sequences, FiniteSets, TLC

VARIABLES
    sessions,   \* table sessions: a set of rows
    nextId,     \* source of fresh session ids / random tokens
    now,        \* wall clock (time.Now() and the store's NOW())
    overCap,    \* ghost: some user has held more than SessionLimit rows
    cs,         \* CreateSession calls in flight, per worker
    vt,         \* the ValidateToken call in flight
    users,      \* table users: a set of rows
    rq,         \* HTTP requests in flight (Register, Login), per worker
    streak,     \* ghost: per user, wrong-password logins since the last success
    valkey,     \* the limiter's store: per key, a sorted set and its expiry
    lm,         \* rate-limit checks in flight, per worker
    lmCalls,    \* number of Allow calls that reached the store client
    history,    \* ghost: per key, the Allow calls answered so far, in order
    resent,     \* number of verification tokens drawn by resend requests
    auditUp,    \* whether an insert into audit_logs succeeds at this instant
    twin,       \* ghost: a request, the state it started in and its first outcome
    cfg         \* what the process runs with: the configuration config.Load
                \* returned at startup and the deny-list it was built with

vars == <<sessions, nextId, now, overCap, cs, vt, users, rq, streak,
          valkey, lm, lmCalls, history, resent, auditUp, twin, cfg>>

\* What the session-cap runs leave alone.
capRest == <<vt, users, rq, streak, valkey, lm, lmCalls, history, resent, auditUp, twin, cfg>>
\* What the token-validation runs leave alone.
vtRest == <<overCap, cs, users, rq, streak, valkey, lm, lmCalls, history, resent, auditUp, twin, cfg>>
\* What the request runs leave alone.
rqRest == <<overCap, cs, vt, valkey, lm, lmCalls, history, resent, auditUp, twin, cfg>>
\* The same, for runs in which verification mails are resent.
mailRest == <<overCap, cs, vt, valkey, lm, lmCalls, history, auditUp, twin, cfg>>
\* The same, for runs in which side effects fail.
effectRest == <<overCap, cs, vt, valkey, lm, lmCalls, history, resent, cfg>>
\* What the runs of CreateSession next to ValidateToken leave alone.
terminalRest == <<users, rq, streak, valkey, lm, lmCalls, history, resent, auditUp, twin, cfg>>
\* What the limiter runs leave alone.
lmRest == <<sessions, nextId, overCap, cs, vt, users, rq, streak, resent, auditUp, twin, cfg>>

(***************************************************************************)
(* Bounds of the model.                                                    *)
(***************************************************************************)
MaxProcs == 2      \* workers that may run CreateSession concurrently
MaxCalls == 6      \* session rows ever inserted
MaxTokens == 1
MaxAuthSessions == 3  \* sessions created in the request runs     \* session rows ever inserted in the token-validation runs
MaxTime == 7       \* clock readings 0..MaxTime
MaxAuthTime == 2   \* clock readings 0..MaxAuthTime in the request runs
LockDuration == 1  \* scaled: HandleLogin locks for 30 minutes
MaxGateTime == 3   \* clock readings 0..MaxGateTime in the gated-request runs
MaxTerminalTime == 3  \* clock readings in the runs of CreateSession next to ValidateToken
MaxTerminalTokens == 1  \* tokens presented and revoked in those runs
EmailVerificationTTL == 1  \* scaled: a verification token lives 24 h
MaxResends == 1    \* verification tokens drawn by resend requests per run
MaxVerifyTime == 2 \* clock readings 0..MaxVerifyTime in the verification runs
RuleLimit == 2     \* scaled: the rule's limit (the login rule allows 5)
RuleWindow == 3    \* scaled: the rule's window (the login rule spans 900 s)
MaxAllowCalls == 4 \* Allow calls per run
MaxRaceCalls == 3  \* Allow calls per run with concurrent checks
MaxRaceTime == 1   \* clock readings 0..MaxRaceTime in those runs
MaxLimiterTime == RuleWindow + 2  \* clock readings in the sequential limiter runs

(***************************************************************************)
(* Program constants.                                                      *)
(***************************************************************************)
SessionLimit == 5
MaxFailedLogins == 10
PasswordMinLength == 8
PasswordMaxLength == 1000

Procs == 1..MaxProcs
UserIds == {"u1", "u2"}
CapUsers == {"u1"}

(***************************************************************************)
(* domain.HashToken: hex(sha256(token)).  Tokens are positive naturals     *)
(* (0 is the empty string); the digest is an injective tag of the token.   *)
(***************************************************************************)
HashToken(token) == <<"sha256", token>>

(***************************************************************************)
(* Store queries on sessions.                                              *)
(***************************************************************************)
UserSessions(rows, u) == {s \in rows : s.user_id = u}

CountUserSessions(rows, u) == Cardinality(UserSessions(rows, u))

\* ORDER BY created_at ASC LIMIT 1: the row with the least created_at.
GetOldestUserSession(rows, u) ==
    {s \in UserSessions(rows, u) :
        \A t \in UserSessions(rows, u) : s.created_at <= t.created_at}

DeleteSession(rows, id) == {s \in rows : s.id # id}

\* INSERT INTO sessions: last_active_at and created_at default to NOW().  The
\* store stamps created_at per statement, so later inserts carry later stamps:
\* created_at is the row's place in the order of insertion.
NewSessionRow(id, u, tokenHash, expiresAt, t) ==
    [id |-> id, user_id |-> u, token_hash |-> tokenHash,
     expires_at |-> expiresAt, last_active_at |-> t, created_at |-> id]

SessionMaxAge == 5   \* scaled: the configured default is 7 days
IdleTimeout == 2     \* scaled: the configured default is 30 minutes

OverLimit(rows) == \E u \in UserIds : CountUserSessions(rows, u) > SessionLimit

(***************************************************************************)
(* SessionService.CreateSession, one store query per step.                 *)
(***************************************************************************)
CsIdle ==
    [pc |-> "idle", phase |-> "pre", user |-> "none", oldest |-> 0,
     token |-> 0, err |-> "nil", before |-> {}]

(***************************************************************************)
(* Password texts.  A text is a sequence of characters followed by `fill`  *)
(* further characters "x", which stands for texts too long to write out.   *)
(***************************************************************************)
UpperLetters == <<"A", "B", "C", "D", "E", "F", "G", "H", "I", "J", "K", "L", "M", 
                 "N", "O", "P", "Q", "R", "S", "T", "U", "V", "W", "X", "Y", "Z">>
LowerLetters == <<"a", "b", "c", "d", "e", "f", "g", "h", "i", "j", "k", "l", "m", 
                 "n", "o", "p", "q", "r", "s", "t", "u", "v", "w", "x", "y", "z">>
Digits == {"0", "1", "2", "3", "4", "5", "6", "7", "8", "9"}

IsUpper(c) == \E i \in DOMAIN UpperLetters : UpperLetters[i] = c
IsLower(c) == \E i \in DOMAIN LowerLetters : LowerLetters[i] = c

\* strings.ToLower, character by character.
ToLower(chars) ==
    [i \in DOMAIN chars |->
        IF IsUpper(chars[i])
        THEN LowerLetters[CHOOSE k \in DOMAIN UpperLetters : UpperLetters[k] = chars[i]]
        ELSE chars[i]]

\* hasUppercase, hasNumber, hasSpecial: some character of the value is in
\* 'A'..'Z', in '0'..'9', outside the letters and digits.
hasUppercase(chars) == \E i \in DOMAIN chars : IsUpper(chars[i])
hasNumber(chars) == \E i \in DOMAIN chars : chars[i] \in Digits
hasSpecial(chars) ==
    \E i \in DOMAIN chars : ~IsUpper(chars[i]) /\ ~IsLower(chars[i]) /\ chars[i] \notin Digits

Pw(text, lower, len, upper, digit, special) ==
    [text |-> text, lower |-> lower, len |-> len, upper |-> upper,
     digit |-> digit, special |-> special]

\* A password with what the policy computes of it: its lower-cased form, its
\* length and the character classes it holds.
PwOf(chars, fill) ==
    Pw(<<chars, fill>>, <<ToLower(chars), fill>>, Len(chars) + fill,
       hasUppercase(chars), hasNumber(chars), hasSpecial(chars))

PwNone == PwOf(<<>>, 0)
PwGood == PwOf(<<"S", "t", "r", "0", "n", "g", "!", "P", "a", "s", "s">>, 0)
PwOther == PwOf(<<"0", "t", "h", "e", "r", "!", "P", "a", "s", "s">>, 0)
PwShort == PwOf(<<"s", "h", "o", "r", "t", "1", "!">>, 0)
PwLong == PwOf(<<"A", "a", "1", "!">>, 997)

\* Keys of the commonPasswords map, four of the 64.  The repository holds
\* two copies of the file that differ in these keys alone: one writes them
\* with capitals, the other in lower case.
CommonPasswords ==
    {<<<<"P", "a", "s", "s", "w", "o", "r", "d", "1", "!">>, 0>>,
     <<<<"P", "a", "s", "s", "w", "o", "r", "d", "1", "2", "3", "!">>, 0>>,
     <<<<"W", "e", "l", "c", "o", "m", "e", "1", "!">>, 0>>,
     <<<<"C", "h", "@", "n", "g", "e", "M", "e", "1", "!">>, 0>>}

CommonPasswordsLower ==
    {<<<<"p", "a", "s", "s", "w", "o", "r", "d", "1", "!">>, 0>>,
     <<<<"p", "a", "s", "s", "w", "o", "r", "d", "1", "2", "3", "!">>, 0>>,
     <<<<"w", "e", "l", "c", "o", "m", "e", "1", "!">>, 0>>,
     <<<<"c", "h", "@", "n", "g", "e", "m", "e", "1", "!">>, 0>>}

NoCookie == [set |-> FALSE, value |-> 0]

\* What a Google callback carries: the state and code query parameters and
\* the two helper cookies ("" when absent).
OaNone == [state |-> "", code |-> "", stateCookie |-> "", verifier |-> ""]

\* `trail` (the checks the request has passed, in order), `exchanged` (a code
\* exchange was attempted) and `helpersCleared` are ghosts of the callback;
\* `session` is the session the authentication gate resolved and `invoked`
\* (a ghost) whether the gate called the wrapped handler.  `hashedLen` (a
\* ghost) is the length of the longest plaintext a hash computation of the
\* request received.
RqIdle ==
    [op |-> "none", pc |-> "idle", email |-> "", pw |-> PwNone, cookieIn |-> 0,
     user |-> {}, at |-> 0, status |-> 0, body |-> "", cookie |-> NoCookie,
     sub |-> "", created |-> 0, hashes |-> 0, fakes |-> 0, hashedLen |-> 0,
     audit |-> <<>>,
     q |-> OaNone, verified |-> FALSE, trail |-> <<>>, exchanged |-> FALSE,
     helpersCleared |-> FALSE, session |-> {}, invoked |-> FALSE,
     cookieCleared |-> FALSE, newPw |-> PwNone, token |-> <<"none", 0>>]

\* Keys of the limiter's store ("rl:" + key).
LimiterKeys == {"rl:login:alice@x.io:ip", "rl:register:ip"}

\* A key that does not exist: no members, no expiry (0).
EmptyKey == [members |-> {}, ttl |-> 0]

\* A rate-limit check.  `commands` is a ghost: the store commands it issued.
LmIdle ==
    [pc |-> "idle", key |-> "", limit |-> 0, window |-> 0, at |-> 0, member |-> 0,
     step |-> 0, count |-> 0, allowed |-> FALSE, err |-> FALSE, enabled |-> FALSE,
     configured |-> FALSE, raced |-> FALSE, commands |-> 0]

\* What a request asks for, and no request.
NoInput == [kind |-> "none", raw |-> "", pw |-> PwNone, newPw |-> PwNone, tok |-> 0]

TwinIdle ==
    [phase |-> "idle", input |-> NoInput, users |-> {}, sessions |-> {}, nextId |-> 0,
     streak |-> <<>>, status |-> 0, body |-> "", cookie |-> NoCookie,
     cookieCleared |-> FALSE, audit |-> <<>>, usersAfter |-> {}, sessionsAfter |-> {}]

VtIdle ==
    [pc |-> "idle", token |-> 0, row |-> {}, stored |-> {}, lookupAt |-> 0,
     checkAt |-> 0, result |-> "none"]

\* The environment of the process: the variables config.Load reads for the
\* post-login redirect and the application base URL ("" when unset).
Environment(redirect, base) ==
    [AUTH_POST_LOGIN_REDIRECT_URL |-> redirect, APP_BASE_URL |-> base]

\* strings.TrimRight(value, "/").
TrimRightSlash(value) ==
    CASE value = "https://app.example/" -> "https://app.example"
      [] value = "/" -> ""
      [] OTHER -> value

\* config.Load: AppBaseURL is APP_BASE_URL without trailing slashes, or the
\* local address of the default port; PostLoginRedirectURL is the variable
\* as it stands.
Load(env) ==
    [PostLoginRedirectURL |-> env.AUTH_POST_LOGIN_REDIRECT_URL,
     AppBaseURL |-> IF TrimRightSlash(env.APP_BASE_URL) = "" THEN "http://localhost:3400"
                    ELSE TrimRightSlash(env.APP_BASE_URL)]

\* The state once main has loaded the configuration `c` and built the
\* handlers, in a process whose commonPasswords map holds `keys`: empty
\* tables, no request in flight.
Booted(c, keys) ==
    /\ cfg = [PostLoginRedirectURL |-> c.PostLoginRedirectURL,
              AppBaseURL |-> c.AppBaseURL, commonPasswords |-> keys]
    /\ sessions = {}
    /\ nextId = 1
    /\ now = 0
    /\ overCap = FALSE
    /\ cs = [p \in Procs |-> CsIdle]
    /\ vt = VtIdle
    /\ users = {}
    /\ rq = [p \in Procs |-> RqIdle]
    /\ streak = [u \in UserIds |-> 0]
    /\ valkey = [k \in LimiterKeys |-> EmptyKey]
    /\ lm = [p \in Procs |-> LmIdle]
    /\ lmCalls = 0
    /\ history = [k \in LimiterKeys |-> <<>>]
    /\ resent = 0
    /\ auditUp = TRUE
    /\ twin = TwinIdle

\* The process started with none of the two variables set.
Init == Booted(Load(Environment("", "")), CommonPasswords)

\* A worker starts CreateSession(userID); its first enforceSessionLimit begins.
\* `snap` is a ghost: the user's rows the call found (kept in sequential runs).
CsBegin(p, u, snap) ==
    /\ cs[p].pc = "idle"
    /\ nextId <= MaxCalls
    /\ \A q \in Procs : q < p => cs[q].pc # "idle"
    /\ cs' = [cs EXCEPT ![p] = [CsIdle EXCEPT !.pc = "count", !.user = u,
                                              !.before = snap]]
    /\ UNCHANGED <<sessions, nextId, now, overCap>>

CsStart(p, u) == CsBegin(p, u, {})

\* Sequential use: a call starts only when no other call is in flight.
CsStartSeq(p, u) ==
    /\ \A q \in Procs : cs[q].pc = "idle"
    /\ CsBegin(p, u, UserSessions(sessions, u))

\* Mutant of CsCount: the cap is not enforced again after the insert.
CsCountNoRecheck(p) ==
    /\ cs[p].pc = "count"
    /\ IF cs[p].phase = "post" \/ CountUserSessions(sessions, cs[p].user) < SessionLimit
       THEN IF cs[p].phase = "pre"
            THEN cs' = [cs EXCEPT ![p].pc = "insert"]
            ELSE cs' = [cs EXCEPT ![p].pc = "returned", ![p].err = "nil"]
       ELSE cs' = [cs EXCEPT ![p].pc = "oldest"]
    /\ UNCHANGED <<sessions, nextId, now, overCap>>

\* enforceSessionLimit: count, err := CountUserSessions; if count < limit return nil.
CsCount(p) ==
    /\ cs[p].pc = "count"
    /\ IF CountUserSessions(sessions, cs[p].user) < SessionLimit
       THEN IF cs[p].phase = "pre"
            THEN cs' = [cs EXCEPT ![p].pc = "insert"]
            ELSE cs' = [cs EXCEPT ![p].pc = "returned", ![p].err = "nil"]
       ELSE cs' = [cs EXCEPT ![p].pc = "oldest"]
    /\ UNCHANGED <<sessions, nextId, now, overCap>>

\* enforceSessionLimit: oldest, err := GetOldestUserSession (pgx.ErrNoRows when
\* every row has gone meanwhile: the error is returned to the caller).
CsGetOldest(p) ==
    /\ cs[p].pc = "oldest"
    /\ IF GetOldestUserSession(sessions, cs[p].user) = {}
       THEN cs' = [cs EXCEPT ![p].pc = "returned", ![p].err = "no_rows",
                             ![p].token = 0]
       ELSE \E o \in GetOldestUserSession(sessions, cs[p].user) :
                cs' = [cs EXCEPT ![p].pc = "delete", ![p].oldest = o.id]
    /\ UNCHANGED <<sessions, nextId, now, overCap>>

\* Mutant of CsDelete: the iteration deletes every row of the user.
CsDeleteAll(p) ==
    /\ cs[p].pc = "delete"
    /\ sessions' = sessions \ UserSessions(sessions, cs[p].user)
    /\ cs' = [cs EXCEPT ![p].pc = "count", ![p].oldest = 0]
    /\ UNCHANGED <<nextId, now, overCap>>

\* enforceSessionLimit: DeleteSession(oldest.ID), then loop.
CsDelete(p) ==
    /\ cs[p].pc = "delete"
    /\ sessions' = DeleteSession(sessions, cs[p].oldest)
    /\ cs' = [cs EXCEPT ![p].pc = "count", ![p].oldest = 0]
    /\ UNCHANGED <<nextId, now, overCap>>

\* Mutant of CsInsert: generateToken returns the same token every time.
CsInsertSameToken(p) ==
    /\ cs[p].pc = "insert"
    /\ sessions' = sessions \cup
          {NewSessionRow(nextId, cs[p].user, HashToken(1),
                         now + SessionMaxAge, now)}
    /\ nextId' = nextId + 1
    /\ overCap' = (overCap \/ OverLimit(sessions'))
    /\ cs' = [cs EXCEPT ![p].pc = "count", ![p].phase = "post", ![p].token = nextId]
    /\ UNCHANGED now

\* generateToken, HashToken, queries.CreateSession; the second
\* enforceSessionLimit follows.
CsInsert(p) ==
    /\ cs[p].pc = "insert"
    /\ sessions' = sessions \cup
          {NewSessionRow(nextId, cs[p].user, HashToken(nextId),
                         now + SessionMaxAge, now)}
    /\ nextId' = nextId + 1
    /\ overCap' = (overCap \/ OverLimit(sessions'))
    /\ cs' = [cs EXCEPT ![p].pc = "count", ![p].phase = "post", ![p].token = nextId]
    /\ UNCHANGED now

\* The caller has taken the result; the worker is free again.
CsReturn(p) ==
    /\ cs[p].pc = "returned"
    /\ cs' = [cs EXCEPT ![p] = CsIdle]
    /\ UNCHANGED <<sessions, nextId, now, overCap>>

\* A store query fails (connection lost, request context cancelled): every
\* query's error is returned to the caller as it is.
CsStoreError(p) ==
    /\ cs[p].pc \in {"count", "oldest", "delete", "insert"}
    /\ cs' = [cs EXCEPT ![p].pc = "returned", ![p].err = "store", ![p].token = 0]
    /\ UNCHANGED <<sessions, nextId, now, overCap>>

CapSteps(p) ==
    \/ CsCount(p)
    \/ CsGetOldest(p)
    \/ CsDelete(p)
    \/ CsInsert(p)
    \/ CsReturn(p)

\* Concurrent CreateSession calls, every store query succeeding.
NextCap ==
    /\ \/ \E p \in Procs, u \in CapUsers : CsStart(p, u)
       \/ \E p \in Procs : CapSteps(p)
    /\ UNCHANGED capRest

SpecCap == Init /\ [][NextCap]_vars

\* The same calls under a scheduler that does not stop for ever while some call
\* in flight can take its next step (a store query that was sent is answered).
\* No call is favoured: the calls are finitely many, so every one gets its turn.
\* Calls overlap from the moment the calls that can be in flight together
\* could bring the user to the limit; before that no loop iterates.
CsStartLive(p, u) ==
    /\ \/ CountUserSessions(sessions, u) + MaxProcs > SessionLimit
       \/ \A q \in Procs : cs[q].pc = "idle"
    /\ CsStart(p, u)

NextCapLive ==
    /\ \/ \E p \in Procs, u \in CapUsers : CsStartLive(p, u)
       \/ \E p \in Procs : CapSteps(p)
    /\ UNCHANGED capRest

SpecCapLive ==
    /\ Init
    /\ [][NextCapLive]_vars
    /\ WF_vars((\E p \in Procs : CapSteps(p)) /\ UNCHANGED capRest)

\* One CreateSession call at a time; store queries may fail.
NextCapSeq ==
    /\ \/ \E p \in Procs, u \in UserIds : CsStartSeq(p, u)
       \/ \E p \in Procs : CapSteps(p)
       \/ \E p \in Procs : CsStoreError(p)
    /\ UNCHANGED capRest

SpecCapSeq == Init /\ [][NextCapSeq]_vars

(***************************************************************************)
(* SessionService.CreateSession run alone: the rows it leaves.             *)
(***************************************************************************)
RECURSIVE EnforceSessionLimit(_, _)
EnforceSessionLimit(rows, u) ==
    IF CountUserSessions(rows, u) < SessionLimit
    THEN rows
    ELSE LET oldest == CHOOSE o \in GetOldestUserSession(rows, u) : TRUE
         IN  EnforceSessionLimit(DeleteSession(rows, oldest.id), u)

CreateSessionRows(rows, id, u, t) ==
    EnforceSessionLimit(
        EnforceSessionLimit(rows, u) \cup
            {NewSessionRow(id, u, HashToken(id), t + SessionMaxAge, t)},
        u)

(***************************************************************************)
(* Store queries by token hash.                                            *)
(***************************************************************************)
\* SELECT ... FROM sessions s JOIN users u ... WHERE s.token_hash = $1
\* AND s.expires_at > NOW()
GetSessionByTokenHash(rows, hash, t) ==
    {s \in rows : s.token_hash = hash /\ s.expires_at > t}

DeleteSessionByTokenHash(rows, hash) == {s \in rows : s.token_hash # hash}

\* Mutant of UpdateSessionLastActive: the refresh also moves expires_at.
UpdateSessionSliding(rows, id, t) ==
    {IF s.id = id THEN [s EXCEPT !.last_active_at = t, !.expires_at = t + SessionMaxAge]
                  ELSE s : s \in rows}

\* UPDATE sessions SET last_active_at = NOW() WHERE id = $1
UpdateSessionLastActive(rows, id, t) ==
    {IF s.id = id THEN [s EXCEPT !.last_active_at = t] ELSE s : s \in rows}

(***************************************************************************)
(* Token validation runs: sessions are created by requests that run alone, *)
(* time passes, tokens are presented to ValidateToken and revoked.         *)
(***************************************************************************)
\* A successful authentication creates a session for u.
SessCreate(u) ==
    /\ nextId <= MaxTokens
    /\ sessions' = CreateSessionRows(sessions, nextId, u, now)
    /\ nextId' = nextId + 1
    /\ UNCHANGED <<now, vt>>

\* SessionService.RevokeByTokenHash (logout, rotation); <<>> is the empty hash.
RevokeByTokenHash(hash) ==
    /\ sessions' = (IF hash = <<>> THEN sessions
                    ELSE DeleteSessionByTokenHash(sessions, hash))
    /\ UNCHANGED <<nextId, now, vt>>

Tick ==
    /\ now < MaxTime
    /\ now' = now + 1
    /\ UNCHANGED <<sessions, nextId, vt>>

\* ValidateToken, up to the lookup: the empty token and a missing row are
\* ErrSessionNotFound.  `stored` is a ghost: the rows carrying the hash.
VtLookup(tok) ==
    /\ vt.pc = "idle"
    /\ LET hash == HashToken(tok)
           row == GetSessionByTokenHash(sessions, hash, now)
       IN  IF tok = 0
           THEN vt' = [VtIdle EXCEPT !.pc = "done", !.token = tok, !.lookupAt = now,
                                     !.checkAt = now, !.result = "not_found"]
           ELSE IF row = {}
           THEN vt' = [VtIdle EXCEPT !.pc = "done", !.token = tok, !.lookupAt = now,
                                     !.checkAt = now, !.result = "not_found",
                                     !.stored = {s \in sessions : s.token_hash = hash}]
           ELSE vt' = [VtIdle EXCEPT !.pc = "check", !.token = tok, !.lookupAt = now,
                                     !.row = row,
                                     !.stored = {s \in sessions : s.token_hash = hash}]
    /\ UNCHANGED <<sessions, nextId, now>>

\* Mutant of VtCheck: the idle test is off by one (<= instead of <).
VtCheckIdleInclusive ==
    /\ vt.pc = "check"
    /\ LET row == CHOOSE s \in vt.row : TRUE
           hash == HashToken(vt.token)
       IN  IF IdleTimeout > 0 /\ row.last_active_at + IdleTimeout <= now
           THEN /\ sessions' = DeleteSessionByTokenHash(sessions, hash)
                /\ vt' = [vt EXCEPT !.pc = "done", !.checkAt = now, !.result = "expired"]
           ELSE IF row.expires_at < now
           THEN /\ sessions' = DeleteSessionByTokenHash(sessions, hash)
                /\ vt' = [vt EXCEPT !.pc = "done", !.checkAt = now, !.result = "expired"]
           ELSE /\ sessions' = UpdateSessionLastActive(sessions, row.id, now)
                /\ vt' = [vt EXCEPT !.pc = "done", !.checkAt = now, !.result = "ok"]
    /\ UNCHANGED <<nextId, now>>

\* ValidateToken after the lookup: the idle test, the absolute test (each
\* deleting the row and failing with ErrSessionExpired), else the refresh of
\* last_active_at.
VtCheck ==
    /\ vt.pc = "check"
    /\ LET row == CHOOSE s \in vt.row : TRUE
           hash == HashToken(vt.token)
       IN  IF IdleTimeout > 0 /\ row.last_active_at + IdleTimeout < now
           THEN /\ sessions' = DeleteSessionByTokenHash(sessions, hash)
                /\ vt' = [vt EXCEPT !.pc = "done", !.checkAt = now, !.result = "expired"]
           ELSE IF row.expires_at < now
           THEN /\ sessions' = DeleteSessionByTokenHash(sessions, hash)
                /\ vt' = [vt EXCEPT !.pc = "done", !.checkAt = now, !.result = "expired"]
           ELSE /\ sessions' = UpdateSessionLastActive(sessions, row.id, now)
                /\ vt' = [vt EXCEPT !.pc = "done", !.checkAt = now, !.result = "ok"]
    /\ UNCHANGED <<nextId, now>>

\* The caller has taken the result.
VtReturn ==
    /\ vt.pc = "done"
    /\ vt' = VtIdle
    /\ UNCHANGED <<sessions, nextId, now>>

NextValidate ==
    /\ \/ \E u \in CapUsers : SessCreate(u)
       \/ \E tok \in 0..MaxTokens : VtLookup(tok)
       \/ VtCheck
       \/ VtReturn
       \/ \E tok \in 1..MaxTokens : RevokeByTokenHash(HashToken(tok))
       \/ RevokeByTokenHash(<<>>)
       \/ Tick
    /\ UNCHANGED vtRest

SpecValidate == Init /\ [][NextValidate]_vars

\* Time passes between CreateSession calls.
TerminalTick ==
    /\ now < MaxTerminalTime
    /\ \A p \in Procs : cs[p].pc = "idle"
    /\ now' = now + 1
    /\ UNCHANGED <<sessions, nextId, vt>>

\* CreateSession calls of one user, one at a time, so many that the cap
\* evicts; meanwhile time passes and the first tokens are presented to
\* ValidateToken and revoked.
NextTerminal ==
    /\ \/ (\E p \in Procs, u \in CapUsers : CsStartSeq(p, u)) /\ UNCHANGED vt
       \/ (\E p \in Procs : CapSteps(p)) /\ UNCHANGED vt
       \/ (\E tok \in 1..MaxTerminalTokens : VtLookup(tok)) /\ UNCHANGED <<overCap, cs>>
       \/ (VtCheck \/ VtReturn) /\ UNCHANGED <<overCap, cs>>
       \/ (\E tok \in 1..MaxTerminalTokens :
              (\A p \in Procs : cs[p].pc = "idle") /\ RevokeByTokenHash(HashToken(tok)))
             /\ UNCHANGED <<overCap, cs>>
       \/ TerminalTick /\ UNCHANGED <<overCap, cs>>
    /\ UNCHANGED terminalRest

SpecTerminal == Init /\ [][NextTerminal]_vars

(***************************************************************************)
(* Password engine (domain/auth.go).  A password is its text together with *)
(* what the policy reads of it: length, lower-cased form, character        *)
(* classes.                                                                *)
(***************************************************************************)
\* isCommonPassword: the lower-cased candidate is looked up among the keys
\* of the copy the process was built from.
IsCommonPassword(pw) == pw.lower \in cfg.commonPasswords

\* ValidatePassword: "" when accepted, else the first failing rule's message.
ValidatePassword(pw) ==
    IF pw.len < PasswordMinLength THEN "password must be at least 8 characters"
    ELSE IF pw.len > PasswordMaxLength THEN "password must be at most 1000 characters"
    ELSE IF ~pw.upper THEN "password must include an uppercase letter"
    ELSE IF ~pw.digit THEN "password must include a number"
    ELSE IF ~pw.special THEN "password must include a special character"
    ELSE IF IsCommonPassword(pw) THEN "password is too common"
    ELSE ""

Salts == {"salt1", "salt2"}

\* argon2.IDKey: a digest determined by the password text and the salt.
Argon2(text, salt) == <<text, salt>>

\* HashPassword: "$argon2id$v=19$m=..,t=..,p=..$<salt>$<hash>" for a random salt.
HashPassword(pw, salt) == <<"argon2id", salt, Argon2(pw.text, salt)>>

\* VerifyPassword: recompute with the salt of the encoded hash, compare.
VerifyPassword(pw, encoded) == Argon2(pw.text, encoded[2]) = encoded[3]

\* NormalizeEmail: TrimSpace(ToLower(value)); "" stands for ErrInvalidEmail.
RawEmails == {" Alice@X.io ", "alice@x.io", "bob@x.io", "not an email"}

NormalizeEmail(raw) ==
    CASE raw = " Alice@X.io " -> "alice@x.io"
      [] raw = "alice@x.io" -> "alice@x.io"
      [] raw = "bob@x.io" -> "bob@x.io"
      [] OTHER -> ""

(***************************************************************************)
(* Table users.  A nullable column is <<>> (NULL) or <<value>>.            *)
(***************************************************************************)
\* gen_random_uuid(): an id no row holds.
NewUserId(rows) == CHOOSE id \in UserIds : \A u \in rows : u.id # id

\* INSERT INTO users ... (CreateUser): failed_login_attempts defaults to 0,
\* locked_until and the verification columns to NULL.
NewUserRow(id, email, passwordHash, provider, googleId) ==
    [id |-> id, email |-> email, email_verified |-> FALSE,
     password_hash |-> passwordHash, provider |-> provider, google_id |-> googleId,
     failed_login_attempts |-> 0, locked_until |-> <<>>,
     email_verification_token_hash |-> <<>>,
     email_verification_expires_at |-> <<>>, picture |-> <<>>]

GetUserByEmail(rows, email) == {u \in rows : u.email = email}

IncrementFailedLoginAttempts(rows, id) ==
    {IF u.id = id THEN [u EXCEPT !.failed_login_attempts = @ + 1] ELSE u : u \in rows}

ResetFailedLoginAttempts(rows, id) ==
    {IF u.id = id THEN [u EXCEPT !.failed_login_attempts = 0] ELSE u : u \in rows}

LockUser(rows, id, until) ==
    {IF u.id = id THEN [u EXCEPT !.locked_until = <<until>>] ELSE u : u \in rows}

UnlockUser(rows, id) ==
    {IF u.id = id THEN [u EXCEPT !.locked_until = <<>>, !.failed_login_attempts = 0]
                  ELSE u : u \in rows}

SetEmailVerificationToken(rows, id, hash, expiresAt) ==
    {IF u.id = id THEN [u EXCEPT !.email_verification_token_hash = <<hash>>,
                                 !.email_verification_expires_at = <<expiresAt>>]
                  ELSE u : u \in rows}

(***************************************************************************)
(* HTTP requests.  A request record holds the handler's locals, the        *)
(* response under construction and, as ghosts, the work it did: the number *)
(* of password-hash computations, of FakePasswordHash calls, and the       *)
(* audit_logs rows it appended (no handler reads audit_logs).              *)
(***************************************************************************)
AuditEntry(event, user, reason) == [event |-> event, user |-> user, reason |-> reason]

\* writeJSON(w, status, body): the response is written and the handler returns.
Respond(r, status, body) == [r EXCEPT !.pc = "done", !.status = status, !.body = body]

\* auditLogger.Log: one row appended to audit_logs, or none when the insert
\* fails; the error is dropped.
Logged(r, event, user, reason) ==
    IF auditUp THEN [r EXCEPT !.audit = Append(@, AuditEntry(event, user, reason))]
    ELSE r

\* Mutant of FakeHashed: the fallback hash is not computed.
NoFakeHash(r, pw) == r

\* domain.FakePasswordHash: one hash computation, result discarded.
FakeHashed(r, pw) ==
    [r EXCEPT !.hashes = @ + 1, !.fakes = @ + 1,
              !.hashedLen = IF pw.len > @ THEN pw.len ELSE @]

\* domain.VerifyPassword / domain.HashPassword: one hash computation.
Hashed(r, pw) ==
    [r EXCEPT !.hashes = @ + 1, !.hashedLen = IF pw.len > @ THEN pw.len ELSE @]

InFlight == Cardinality({p \in Procs : rq[p].pc \notin {"idle", "done"}})

\* A worker may take a request while session ids remain for every request in
\* flight.
CanStart(p) ==
    /\ rq[p].pc = "idle"
    /\ \A q \in Procs : q < p => rq[q].pc # "idle"
    /\ nextId + InFlight <= MaxAuthSessions

(***************************************************************************)
(* AuthHandler.HandleLogin.                                                *)
(***************************************************************************)
\* Decode, NormalizeEmail, allowRequest("login:"+email), the length check.
\* `allowed` is the rate limiter's verdict; `cookieIn` is the session cookie
\* the request carries (0: none), which the handler never reads.
LgStart(p, raw, pw, cookieIn, allowed) ==
    /\ CanStart(p)
    /\ LET r == [RqIdle EXCEPT !.op = "login", !.email = NormalizeEmail(raw), !.pw = pw,
                              !.cookieIn = cookieIn]
       IN  rq' = [rq EXCEPT ![p] =
                IF r.email = "" THEN Respond(r, 400, "invalid email")
                ELSE IF ~allowed THEN Respond(r, 429, "too many requests")
                ELSE IF pw.len > 1000 THEN Respond(r, 400, "invalid password")
                ELSE [r EXCEPT !.pc = "lookup"]]
    /\ UNCHANGED <<sessions, nextId, now, users, streak>>

\* Mutant of LgLookup: the lockout test is left out.
LgLookupNoLockCheck(p) ==
    /\ rq[p].op = "login" /\ rq[p].pc = "lookup"
    /\ LET r == rq[p]
           found == GetUserByEmail(users, r.email)
       IN  IF found = {}
           THEN rq' = [rq EXCEPT ![p] =
                    Respond(Logged(FakeHashed(r, r.pw), "login_failure", "null", "not_found"),
                            401, "invalid email or password")]
           ELSE LET user == CHOOSE u \in found : TRUE
                    r1 == [r EXCEPT !.user = found, !.at = now]
                IN  IF user.locked_until # <<>> /\ user.locked_until[1] < now
                    THEN rq' = [rq EXCEPT ![p] = [r1 EXCEPT !.pc = "unlock"]]
                    ELSE rq' = [rq EXCEPT ![p] = [r1 EXCEPT !.pc = "verify"]]
    /\ UNCHANGED <<sessions, nextId, now, users, streak>>

\* GetUserByEmail; on a miss FakePasswordHash and the generic 401.  Then
\* now := time.Now(), the lockout test, and whether the lock has lapsed.
LgLookup(p) ==
    /\ rq[p].op = "login" /\ rq[p].pc = "lookup"
    /\ LET r == rq[p]
           found == GetUserByEmail(users, r.email)
       IN  IF found = {}
           THEN rq' = [rq EXCEPT ![p] =
                    Respond(Logged(FakeHashed(r, r.pw), "login_failure", "null", "not_found"),
                            401, "invalid email or password")]
           ELSE LET user == CHOOSE u \in found : TRUE
                    r1 == [r EXCEPT !.user = found, !.at = now]
                IN  IF user.locked_until # <<>> /\ user.locked_until[1] > now
                    THEN rq' = [rq EXCEPT ![p] =
                             Respond(Logged(r1, "login_failure", user.id, "locked"),
                                     401, "invalid email or password")]
                    ELSE IF user.locked_until # <<>> /\ user.locked_until[1] < now
                    THEN rq' = [rq EXCEPT ![p] = [r1 EXCEPT !.pc = "unlock"]]
                    ELSE rq' = [rq EXCEPT ![p] = [r1 EXCEPT !.pc = "verify"]]
    /\ UNCHANGED <<sessions, nextId, now, users, streak>>

\* queries.UnlockUser(user.ID).
LgUnlock(p) ==
    /\ rq[p].op = "login" /\ rq[p].pc = "unlock"
    /\ LET user == CHOOSE u \in rq[p].user : TRUE
       IN  users' = UnlockUser(users, user.id)
    /\ rq' = [rq EXCEPT ![p].pc = "verify"]
    /\ UNCHANGED <<sessions, nextId, now, streak>>

\* The provider test (FakePasswordHash and the generic 401 on a mismatch),
\* then VerifyPassword against the hash read with the user.
LgVerify(p) ==
    /\ rq[p].op = "login" /\ rq[p].pc = "verify"
    /\ LET r == rq[p]
           user == CHOOSE u \in r.user : TRUE
       IN  IF user.provider # "credentials" \/ user.password_hash = <<>>
           THEN rq' = [rq EXCEPT ![p] =
                    Respond(Logged(FakeHashed(r, r.pw), "login_failure", user.id,
                                   "invalid_provider"),
                            401, "invalid email or password")]
           ELSE IF VerifyPassword(r.pw, user.password_hash[1])
           THEN rq' = [rq EXCEPT ![p] = [Hashed(r, r.pw) EXCEPT !.pc = "reset"]]
           ELSE rq' = [rq EXCEPT ![p] = [Hashed(r, r.pw) EXCEPT !.pc = "increment"]]
    /\ UNCHANGED <<sessions, nextId, now, users, streak>>

\* Wrong password: IncrementFailedLoginAttempts ... RETURNING *, and the
\* threshold test on the returned row.
LgIncrement(p) ==
    /\ rq[p].op = "login" /\ rq[p].pc = "increment"
    /\ LET r == rq[p]
           user == CHOOSE u \in r.user : TRUE
           updated == CHOOSE u \in IncrementFailedLoginAttempts(users, user.id) :
                          u.id = user.id
       IN  /\ users' = IncrementFailedLoginAttempts(users, user.id)
           /\ streak' = [streak EXCEPT ![user.id] = IF @ > MaxFailedLogins THEN @ ELSE @ + 1]
           /\ IF updated.failed_login_attempts >= MaxFailedLogins
              THEN rq' = [rq EXCEPT ![p].pc = "lock"]
              ELSE rq' = [rq EXCEPT ![p] =
                       Respond(Logged(r, "login_failure", user.id, "invalid_password"),
                               401, "invalid email or password")]
    /\ UNCHANGED <<sessions, nextId, now>>

\* LockUser(now + 30 min), the account_lockout audit row, sendLockoutEmail
\* (`sent`: whether the mailer's Send succeeded), the generic 401.
LgLock(p, sent) ==
    /\ rq[p].op = "login" /\ rq[p].pc = "lock"
    /\ LET r == rq[p]
           user == CHOOSE u \in r.user : TRUE
           r1 == Logged(r, "account_lockout", user.id, "")
           r2 == IF sent THEN r1 ELSE Logged(r1, "email_send_failed", user.id, "lockout")
       IN  /\ users' = LockUser(users, user.id, r.at + LockDuration)
           /\ rq' = [rq EXCEPT ![p] =
                  Respond(Logged(r2, "login_failure", user.id, "invalid_password"),
                          401, "invalid email or password")]
    /\ UNCHANGED <<sessions, nextId, now, streak>>

\* Right password: ResetFailedLoginAttempts.
LgReset(p) ==
    /\ rq[p].op = "login" /\ rq[p].pc = "reset"
    /\ LET user == CHOOSE u \in rq[p].user : TRUE
       IN  /\ users' = ResetFailedLoginAttempts(users, user.id)
           /\ streak' = [streak EXCEPT ![user.id] = 0]
    /\ rq' = [rq EXCEPT ![p].pc = "session"]
    /\ UNCHANGED <<sessions, nextId, now>>

\* The Location of the callback's closing redirect.
RedirectTarget(c) == IF c.PostLoginRedirectURL = "" THEN "/" ELSE c.PostLoginRedirectURL

\* sessions.CreateSession, SetSessionCookie, the success audit row, and 200
\* or, for the callback, the redirect.
RqSession(p) ==
    /\ rq[p].pc = "session"
    /\ LET r == rq[p]
           user == CHOOSE u \in r.user : TRUE
           r1 == [r EXCEPT !.created = nextId, !.cookie = [set |-> TRUE, value |-> nextId],
                           !.trail = Append(@, "session")]
           event == CASE r.op = "login" -> "login_success"
                      [] r.op = "register" -> "register_success"
                      [] r.op = "password" -> "password_change"
                      [] OTHER -> "oauth_login"
       IN  /\ sessions' = CreateSessionRows(sessions, nextId, user.id, now)
           /\ nextId' = nextId + 1
           /\ rq' = [rq EXCEPT ![p] =
                  CASE r.op \in {"login", "password"} ->
                           Respond(Logged(r1, event, user.id, ""), 200, "ok")
                    [] r.op = "register" -> [Logged(r1, event, user.id, "") EXCEPT !.pc = "mail"]
                    [] OTHER -> Respond(Logged(r1, event, user.id, "google"), 302,
                                        RedirectTarget(cfg))]
    /\ UNCHANGED <<now, users, streak>>

\* The response has been sent; the worker is free again.
RqReturn(p) ==
    /\ rq[p].pc = "done"
    /\ rq' = [rq EXCEPT ![p] = RqIdle]
    /\ UNCHANGED <<sessions, nextId, now, users, streak>>

(***************************************************************************)
(* AuthHandler.HandleRegister.                                             *)
(***************************************************************************)
\* allowRequest("register"), decode, NormalizeEmail, ValidatePassword.
\* `cookieIn` is the session cookie the request carries (0: none).
RgStart(p, raw, pw, cookieIn, allowed) ==
    /\ CanStart(p)
    /\ LET r == [RqIdle EXCEPT !.op = "register", !.email = NormalizeEmail(raw),
                               !.pw = pw, !.cookieIn = cookieIn]
       IN  rq' = [rq EXCEPT ![p] =
                IF ~allowed THEN Respond(r, 429, "too many requests")
                ELSE IF r.email = "" THEN Respond(r, 400, "invalid email")
                ELSE IF ValidatePassword(pw) # "" THEN Respond(r, 400, ValidatePassword(pw))
                ELSE [r EXCEPT !.pc = "lookup"]]
    /\ UNCHANGED <<sessions, nextId, now, users, streak>>

\* GetUserByEmail: a hit is the duplicate path.
RgLookup(p) ==
    /\ rq[p].op = "register" /\ rq[p].pc = "lookup"
    /\ LET r == rq[p]
       IN  IF GetUserByEmail(users, r.email) # {}
           THEN rq' = [rq EXCEPT ![p] =
                    Respond(Logged(r, "register_duplicate", "null", r.email), 200, "ok")]
           ELSE rq' = [rq EXCEPT ![p].pc = "create"]
    /\ UNCHANGED <<sessions, nextId, now, users, streak>>

\* Mutant of RgCreate: a unique violation is reported as an error.
RgCreateConflictError(p, salt) ==
    /\ rq[p].op = "register" /\ rq[p].pc = "create"
    /\ LET r == Hashed(rq[p], rq[p].pw)
           row == NewUserRow(NewUserId(users), r.email, <<HashPassword(r.pw, salt)>>, "credentials", <<>>)
       IN  IF GetUserByEmail(users, r.email) # {}
           THEN /\ rq' = [rq EXCEPT ![p] = Respond(r, 409, "email already registered")]
                /\ users' = users
           ELSE /\ users' = users \cup {row}
                /\ rq' = [rq EXCEPT ![p] = [r EXCEPT !.user = {row}, !.pc = "rotate"]]
    /\ UNCHANGED <<sessions, nextId, now, streak>>

\* HashPassword, then CreateUser; the unique index on email makes the insert
\* fail when a row with the address has appeared since the lookup.
RgCreate(p, salt) ==
    /\ rq[p].op = "register" /\ rq[p].pc = "create"
    /\ LET r == Hashed(rq[p], rq[p].pw)
           row == NewUserRow(NewUserId(users), r.email, <<HashPassword(r.pw, salt)>>, "credentials", <<>>)
       IN  IF GetUserByEmail(users, r.email) # {}
           THEN /\ rq' = [rq EXCEPT ![p] =
                       Respond(Logged(r, "register_duplicate", "null", r.email), 200, "ok")]
                /\ users' = users
           ELSE /\ users' = users \cup {row}
                /\ rq' = [rq EXCEPT ![p] = [r EXCEPT !.user = {row}, !.pc = "rotate"]]
    /\ UNCHANGED <<sessions, nextId, now, streak>>

\* revokeExistingSession: the session of the cookie the request carries is
\* revoked, and the revocation audited.
RqRotate(p) ==
    /\ rq[p].pc = "rotate"
    /\ LET r == rq[p]
           user == CHOOSE u \in r.user : TRUE
       IN  IF r.cookieIn = 0
           THEN /\ sessions' = sessions
                /\ rq' = [rq EXCEPT ![p].pc = "session"]
           ELSE /\ sessions' = DeleteSessionByTokenHash(sessions, HashToken(r.cookieIn))
                /\ rq' = [rq EXCEPT ![p] =
                       [Logged(r, "session_revoked", user.id, "rotation")
                           EXCEPT !.pc = "session"]]
    /\ UNCHANGED <<nextId, now, users, streak>>

\* Mutant of RgMail: a failed Send fails the registration.
RgMailOrFail(p, sent) ==
    /\ rq[p].op = "register" /\ rq[p].pc = "mail"
    /\ LET r == rq[p]
           user == CHOOSE u \in r.user : TRUE
       IN  /\ users' = SetEmailVerificationToken(users, user.id,
                                                 HashToken(<<"verify", r.created>>),
                                                 now + EmailVerificationTTL)
           /\ rq' = [rq EXCEPT ![p] =
                  IF sent
                  THEN Respond(Logged(r, "email_verification_sent", user.id, ""), 200, "ok")
                  ELSE Respond(Logged(r, "email_send_failed", user.id, ""),
                               500, "internal server error")]
    /\ UNCHANGED <<sessions, nextId, now, streak>>

\* sendVerificationEmail (`sent`: whether the mailer's Send succeeded), then
\* the 200 response.  The token is fresh: it is derived from the session id
\* this request drew.
RgMail(p, sent) ==
    /\ rq[p].op = "register" /\ rq[p].pc = "mail"
    /\ LET r == rq[p]
           user == CHOOSE u \in r.user : TRUE
           event == IF sent THEN "email_verification_sent" ELSE "email_send_failed"
       IN  /\ users' = SetEmailVerificationToken(users, user.id,
                                                 HashToken(<<"verify", r.created>>),
                                                 now + EmailVerificationTTL)
           /\ rq' = [rq EXCEPT ![p] = Respond(Logged(r, event, user.id, ""), 200, "ok")]
    /\ UNCHANGED <<sessions, nextId, now, streak>>

(***************************************************************************)
(* AuthHandler.HandleGoogleCallback.                                       *)
(***************************************************************************)
GoogleSubs == {"sub-bob"}
GoogleEmails == {"bob@x.io"}
RegisterEmails == RawEmails \ GoogleEmails

\* oauthConfig.Exchange at the provider: a token is granted for the code the
\* provider issued, presented with the verifier of the challenge it was
\* issued for.
Exchange(code, verifier) == code = "code-ok" /\ verifier = "verifier-ok"

\* Mutant of OaStart: the state parameter is not compared with the cookie.
OaStartNoStateCheck(p, state, code, stateCookie, verifier, cookieIn) ==
    /\ CanStart(p)
    /\ LET r == [RqIdle EXCEPT !.op = "oauth", !.cookieIn = cookieIn,
                               !.q = [state |-> state, code |-> code,
                                      stateCookie |-> stateCookie,
                                      verifier |-> verifier]]
           r1 == [r EXCEPT !.helpersCleared = TRUE, !.trail = <<"cookies">>]
       IN  rq' = [rq EXCEPT ![p] =
                IF state = "" \/ code = "" THEN Respond(r, 400, "invalid request")
                ELSE IF stateCookie = "" THEN Respond(r, 400, "invalid state")
                ELSE IF verifier = "" THEN Respond(r, 400, "invalid state")
                ELSE [r1 EXCEPT !.pc = "exchange", !.trail = Append(@, "state")]]
    /\ UNCHANGED <<sessions, nextId, now, users, streak>>

\* The state and code parameters, the two helper cookies (cleared once both
\* were read), the state comparison.
OaStart(p, state, code, stateCookie, verifier, cookieIn) ==
    /\ CanStart(p)
    /\ LET r == [RqIdle EXCEPT !.op = "oauth", !.cookieIn = cookieIn,
                               !.q = [state |-> state, code |-> code,
                                      stateCookie |-> stateCookie,
                                      verifier |-> verifier]]
           r1 == [r EXCEPT !.helpersCleared = TRUE, !.trail = <<"cookies">>]
       IN  rq' = [rq EXCEPT ![p] =
                IF state = "" \/ code = "" THEN Respond(r, 400, "invalid request")
                ELSE IF stateCookie = "" THEN Respond(r, 400, "invalid state")
                ELSE IF verifier = "" THEN Respond(r, 400, "invalid state")
                ELSE IF state # stateCookie THEN Respond(r1, 400, "invalid state")
                ELSE [r1 EXCEPT !.pc = "exchange", !.trail = Append(@, "state")]]
    /\ UNCHANGED <<sessions, nextId, now, users, streak>>

\* Mutant of OaExchange: the token is taken as granted whatever the provider
\* says.
OaExchangeUnchecked(p) ==
    /\ rq[p].op = "oauth" /\ rq[p].pc = "exchange"
    /\ rq' = [rq EXCEPT ![p] = [rq[p] EXCEPT !.exchanged = TRUE, !.pc = "userinfo",
                                             !.trail = Append(@, "exchange")]]
    /\ UNCHANGED <<sessions, nextId, now, users, streak>>

\* The code exchange, with the verifier cookie as code_verifier.
OaExchange(p) ==
    /\ rq[p].op = "oauth" /\ rq[p].pc = "exchange"
    /\ LET r == [rq[p] EXCEPT !.exchanged = TRUE]
       IN  rq' = [rq EXCEPT ![p] =
                IF Exchange(r.q.code, r.q.verifier)
                THEN [r EXCEPT !.pc = "userinfo", !.trail = Append(@, "exchange")]
                ELSE Respond(r, 400, "invalid oauth code")]
    /\ UNCHANGED <<sessions, nextId, now, users, streak>>

\* The userinfo request: `ok` is whether the provider answered 200; sub, raw
\* and verified are the identity claims of its answer.
OaUserInfo(p, ok, sub, raw, verified) ==
    /\ rq[p].op = "oauth" /\ rq[p].pc = "userinfo"
    /\ LET r == rq[p]
       IN  rq' = [rq EXCEPT ![p] =
                IF ~ok THEN Respond(r, 400, "invalid oauth response")
                ELSE IF sub = "" \/ raw = "" THEN Respond(r, 400, "invalid oauth response")
                ELSE IF NormalizeEmail(raw) = "" THEN Respond(r, 400, "invalid oauth response")
                ELSE [r EXCEPT !.pc = "check", !.sub = sub, !.email = NormalizeEmail(raw),
                               !.verified = verified, !.trail = Append(@, "claims")]]
    /\ UNCHANGED <<sessions, nextId, now, users, streak>>

\* GetUserByEmail: a row of another provider or another Google id is a
\* conflict.
OaCheck(p) ==
    /\ rq[p].op = "oauth" /\ rq[p].pc = "check"
    /\ LET r == rq[p]
           existing == GetUserByEmail(users, r.email)
       IN  IF \E u \in existing : u.provider # "google" \/ u.google_id # <<r.sub>>
           THEN rq' = [rq EXCEPT ![p] =
                    Respond(Logged(r, "oauth_login_failure", "null", "email_conflict"),
                            400, "unable to authenticate")]
           ELSE rq' = [rq EXCEPT ![p] = [r EXCEPT !.pc = "upsert",
                                                   !.trail = Append(@, "check")]]
    /\ UNCHANGED <<sessions, nextId, now, users, streak>>

\* INSERT ... ON CONFLICT (google_id) DO UPDATE: the row of the subject, if
\* any, takes the claimed email, verification flag and picture (the provider
\* sends none) and provider google; otherwise a row is inserted.
UpsertUserByGoogleID(rows, id, email, verified, sub) ==
    IF \E u \in rows : u.google_id = <<sub>>
    THEN {IF u.google_id = <<sub>>
          THEN [u EXCEPT !.email = email, !.email_verified = verified,
                         !.picture = <<>>, !.provider = "google"]
          ELSE u : u \in rows}
    ELSE rows \cup {[NewUserRow(id, email, <<>>, "google", <<sub>>)
                        EXCEPT !.email_verified = verified]}

\* Mutant of OaUpsert: a row that holds the email is taken over.
OaUpsertTakeOver(p) ==
    /\ rq[p].op = "oauth" /\ rq[p].pc = "upsert"
    /\ LET r == rq[p]
           takeOver == {IF u.email = r.email
                        THEN [u EXCEPT !.provider = "google", !.google_id = <<r.sub>>]
                        ELSE u : u \in users}
           after == UpsertUserByGoogleID(takeOver, NewUserId(users), r.email,
                                         r.verified, r.sub)
       IN  /\ users' = after
           /\ rq' = [rq EXCEPT ![p] =
                  [r EXCEPT !.user = {u \in after : u.google_id = <<r.sub>>},
                            !.pc = "rotate", !.trail = Append(@, "upsert")]]
    /\ UNCHANGED <<sessions, nextId, now, streak>>

\* UpsertUserByGoogleID; the unique index on email rejects the statement when
\* another row holds the claimed email.
OaUpsert(p) ==
    /\ rq[p].op = "oauth" /\ rq[p].pc = "upsert"
    /\ LET r == rq[p]
           after == UpsertUserByGoogleID(users, NewUserId(users), r.email,
                                         r.verified, r.sub)
       IN  IF \E u \in users : u.email = r.email /\ u.google_id # <<r.sub>>
           THEN /\ users' = users
                /\ rq' = [rq EXCEPT ![p] =
                       Respond(Logged(r, "oauth_login_failure", "null", "email_conflict"),
                               400, "unable to authenticate")]
           ELSE /\ users' = after
                /\ rq' = [rq EXCEPT ![p] =
                       [r EXCEPT !.user = {u \in after : u.google_id = <<r.sub>>},
                                 !.pc = "rotate", !.trail = Append(@, "upsert")]]
    /\ UNCHANGED <<sessions, nextId, now, streak>>

(***************************************************************************)
(* AuthHandler.RequireAuth and the handlers behind it.                     *)
(***************************************************************************)
GatedOps == {"me", "logout", "password", "resend", "avatar"}
\* Those of them that only concern the session and the password.
SessionOps == {"me", "logout", "password"}

\* ClearSessionCookie and the 401 of the gate.
\* Mutant of Unauthorized: the 401 leaves the cookie in place.
UnauthorizedKeepCookie(r) == Respond(r, 401, "unauthorized")

Unauthorized(r) == Respond([r EXCEPT !.cookieCleared = TRUE], 401, "unauthorized")

\* The request arrives with session cookie `tok` (0: missing or empty).
GtStart(p, op, tok, pw, newPw) ==
    /\ CanStart(p)
    /\ LET r == [RqIdle EXCEPT !.op = op, !.cookieIn = tok, !.pw = pw, !.newPw = newPw]
       IN  rq' = [rq EXCEPT ![p] = IF tok = 0 THEN Unauthorized(r)
                                    ELSE [r EXCEPT !.pc = "gate"]]
    /\ UNCHANGED <<sessions, nextId, now, users, streak>>

\* ValidateToken, GetSessionByTokenHash: the session row joined with its
\* user; no row is ErrSessionNotFound.
GtLookup(p) ==
    /\ rq[p].op \in GatedOps /\ rq[p].pc = "gate"
    /\ LET r == rq[p]
           row == {s \in GetSessionByTokenHash(sessions, HashToken(r.cookieIn), now) :
                      \E u \in users : u.id = s.user_id}
       IN  rq' = [rq EXCEPT ![p] =
                IF row = {} THEN Unauthorized(r)
                ELSE [r EXCEPT !.pc = "gatecheck", !.session = row,
                               !.user = {u \in users : \E s \in row : u.id = s.user_id}]]
    /\ UNCHANGED <<sessions, nextId, now, users, streak>>

\* Mutant of GtCheck: the wrapped handler is invoked for an expired session
\* too.
GtCheckLenient(p) ==
    /\ rq[p].op \in GatedOps /\ rq[p].pc = "gatecheck"
    /\ LET r == rq[p]
           row == CHOOSE s \in r.session : TRUE
       IN  /\ sessions' = UpdateSessionLastActive(sessions, row.id, now)
           /\ rq' = [rq EXCEPT ![p] = [r EXCEPT !.pc = "handler", !.invoked = TRUE,
                                                  !.at = now]]
    /\ UNCHANGED <<nextId, now, users, streak>>

\* ValidateToken, after the lookup: the idle and the absolute test, each
\* deleting the row and failing with ErrSessionExpired; otherwise
\* UpdateSessionLastActive, and the gate calls the wrapped handler.
GtCheck(p) ==
    /\ rq[p].op \in GatedOps /\ rq[p].pc = "gatecheck"
    /\ LET r == [rq[p] EXCEPT !.at = now]
           row == CHOOSE s \in r.session : TRUE
       IN  IF \/ (IdleTimeout > 0 /\ row.last_active_at + IdleTimeout < now)
              \/ row.expires_at < now
           THEN /\ sessions' = DeleteSessionByTokenHash(sessions, row.token_hash)
                /\ rq' = [rq EXCEPT ![p] = Unauthorized(r)]
           ELSE /\ sessions' = UpdateSessionLastActive(sessions, row.id, now)
                /\ rq' = [rq EXCEPT ![p] = [r EXCEPT !.pc = "handler", !.invoked = TRUE]]
    /\ UNCHANGED <<nextId, now, users, streak>>

\* AuthHandler.HandleMe.
MeHandle(p) ==
    /\ rq[p].op = "me" /\ rq[p].pc = "handler"
    /\ rq' = [rq EXCEPT ![p] = Respond(rq[p], 200, "user")]
    /\ UNCHANGED <<sessions, nextId, now, users, streak>>

\* Mutant of LoHandle: the cookie is cleared but the session row is kept.
LoHandleKeepRow(p, allowed) ==
    /\ rq[p].op = "logout" /\ rq[p].pc = "handler"
    /\ LET r == rq[p]
           session == CHOOSE s \in r.session : TRUE
           r1 == Logged(Logged([r EXCEPT !.cookieCleared = TRUE],
                               "session_revoked", session.user_id, "logout"),
                        "logout", session.user_id, "")
       IN  IF ~allowed
           THEN /\ rq' = [rq EXCEPT ![p] = Respond(r, 429, "too many requests")]
                /\ sessions' = sessions
           ELSE /\ sessions' = sessions
                /\ rq' = [rq EXCEPT ![p] = Respond(r1, 200, "ok")]
    /\ UNCHANGED <<nextId, now, users, streak>>

\* AuthHandler.HandleLogout: allowRequest("logout:"+hash), RevokeByTokenHash,
\* ClearSessionCookie, the two audit rows, 200.
LoHandle(p, allowed) ==
    /\ rq[p].op = "logout" /\ rq[p].pc = "handler"
    /\ LET r == rq[p]
           session == CHOOSE s \in r.session : TRUE
           r1 == Logged(Logged([r EXCEPT !.cookieCleared = TRUE],
                               "session_revoked", session.user_id, "logout"),
                        "logout", session.user_id, "")
       IN  IF ~allowed
           THEN /\ rq' = [rq EXCEPT ![p] = Respond(r, 429, "too many requests")]
                /\ sessions' = sessions
           ELSE /\ sessions' = DeleteSessionByTokenHash(sessions, session.token_hash)
                /\ rq' = [rq EXCEPT ![p] = Respond(r1, 200, "ok")]
    /\ UNCHANGED <<nextId, now, users, streak>>

\* UPDATE users SET password_hash = $2 WHERE id = $1.
UpdateUserPassword(rows, id, hash) ==
    {IF u.id = id THEN [u EXCEPT !.password_hash = <<hash>>] ELSE u : u \in rows}

\* DELETE FROM sessions WHERE user_id = $1.
DeleteUserSessions(rows, u) == {s \in rows : s.user_id # u}

\* AuthHandler.HandleChangePassword up to the new hash: allowRequest, the
\* length test, GetUserByID, the provider test, VerifyPassword of the
\* current password, ValidatePassword of the new one.
\* Mutant of CpHandle: a wrong current password ends every session of the user.
CpHandleRevokeOnFailure(p, allowed) ==
    /\ rq[p].op = "password" /\ rq[p].pc = "handler"
    /\ LET r == rq[p]
           ctx == CHOOSE u \in r.user : TRUE
           stored == CHOOSE u \in users : u.id = ctx.id
           failed(reason) == Logged(r, "password_change_failure", stored.id, reason)
       IN  /\ rq' = [rq EXCEPT ![p] =
                IF ~allowed THEN Respond(r, 429, "too many requests")
                ELSE IF r.newPw.len > 1000 THEN Respond(r, 400, "invalid password")
                ELSE IF stored.provider # "credentials" \/ stored.password_hash = <<>>
                THEN Respond(failed("invalid_provider"), 400, "invalid credentials")
                ELSE IF ~VerifyPassword(r.pw, stored.password_hash[1])
                THEN Respond(Hashed(failed("invalid_current_password"), r.pw),
                             400, "invalid credentials")
                ELSE IF ValidatePassword(r.newPw) # ""
                THEN Respond(Hashed(failed("invalid_new_password"), r.pw),
                             400, ValidatePassword(r.newPw))
                ELSE [Hashed(r, r.pw) EXCEPT !.user = {stored}, !.pc = "cpupdate"]]
           /\ sessions' = IF /\ allowed /\ r.newPw.len <= 1000
                             /\ stored.provider = "credentials"
                             /\ stored.password_hash # <<>>
                             /\ ~VerifyPassword(r.pw, stored.password_hash[1])
                          THEN {s \in sessions : s.user_id # stored.id}
                          ELSE sessions
    /\ UNCHANGED <<nextId, now, users, streak>>

CpHandle(p, allowed) ==
    /\ rq[p].op = "password" /\ rq[p].pc = "handler"
    /\ LET r == rq[p]
           ctx == CHOOSE u \in r.user : TRUE
           stored == CHOOSE u \in users : u.id = ctx.id
           failed(reason) == Logged(r, "password_change_failure", stored.id, reason)
       IN  rq' = [rq EXCEPT ![p] =
                IF ~allowed THEN Respond(r, 429, "too many requests")
                ELSE IF r.newPw.len > 1000 THEN Respond(r, 400, "invalid password")
                ELSE IF stored.provider # "credentials" \/ stored.password_hash = <<>>
                THEN Respond(failed("invalid_provider"), 400, "invalid credentials")
                ELSE IF ~VerifyPassword(r.pw, stored.password_hash[1])
                THEN Respond(Hashed(failed("invalid_current_password"), r.pw),
                             400, "invalid credentials")
                ELSE IF ValidatePassword(r.newPw) # ""
                THEN Respond(Hashed(failed("invalid_new_password"), r.pw),
                             400, ValidatePassword(r.newPw))
                ELSE [Hashed(r, r.pw) EXCEPT !.user = {stored}, !.pc = "cpupdate"]]
    /\ UNCHANGED <<sessions, nextId, now, users, streak>>

\* HashPassword of the new password and UpdateUserPassword.
CpUpdate(p, salt) ==
    /\ rq[p].op = "password" /\ rq[p].pc = "cpupdate"
    /\ LET stored == CHOOSE u \in rq[p].user : TRUE
       IN  users' = UpdateUserPassword(users, stored.id, HashPassword(rq[p].newPw, salt))
    /\ rq' = [rq EXCEPT ![p] = [Hashed(rq[p], rq[p].newPw) EXCEPT !.pc = "cprevoke"]]
    /\ UNCHANGED <<sessions, nextId, now, streak>>

\* Mutant of CpRevoke: only the caller's session is revoked.
CpRevokeCallerOnly(p) ==
    /\ rq[p].op = "password" /\ rq[p].pc = "cprevoke"
    /\ LET r == rq[p]
           stored == CHOOSE u \in r.user : TRUE
       IN  /\ sessions' = DeleteSessionByTokenHash(sessions, HashToken(r.cookieIn))
           /\ rq' = [rq EXCEPT ![p] =
                  [Logged(r, "session_revoked", stored.id, "password_change")
                      EXCEPT !.pc = "session"]]
    /\ UNCHANGED <<nextId, now, users, streak>>

\* RevokeUserSessions and its audit row; CreateSession follows.
CpRevoke(p) ==
    /\ rq[p].op = "password" /\ rq[p].pc = "cprevoke"
    /\ LET r == rq[p]
           stored == CHOOSE u \in r.user : TRUE
       IN  /\ sessions' = DeleteUserSessions(sessions, stored.id)
           /\ rq' = [rq EXCEPT ![p] =
                  [Logged(r, "session_revoked", stored.id, "password_change")
                      EXCEPT !.pc = "session"]]
    /\ UNCHANGED <<nextId, now, users, streak>>

(***************************************************************************)
(* AvatarHandler.HandleAvatarConfirm.                                      *)
(***************************************************************************)
\* Mutant of UpdateUser: the columns are assigned without COALESCE, so the
\* NULL arguments overwrite them.
UpdateUserNoCoalesce(rows, id, picture) ==
    {IF u.id = id THEN [u EXCEPT !.picture = picture, !.password_hash = <<>>]
                  ELSE u : u \in rows}

\* UPDATE users SET picture = COALESCE($picture, picture), ... WHERE id = $id,
\* with the other arguments NULL as the handler passes them.
UpdateUser(rows, id, picture) ==
    {IF u.id = id /\ picture # <<>> THEN [u EXCEPT !.picture = picture] ELSE u : u \in rows}

\* The object keys a confirm request may name: the caller's avatar with an
\* allowed or another extension, and the avatar of somebody else.
AvatarKeys == {<<"own", "png">>, <<"own", "exe">>, <<"other", "png">>}

\* isAllowedAvatarKey: under the caller's prefix, with an allowed extension.
IsAllowedAvatarKey(key) == key[1] = "own" /\ key[2] = "png"

\* The key test, HeadObject (`found`), GetUserByID, UpdateUser, 200.
AvHandle(p, key, found) ==
    /\ rq[p].op = "avatar" /\ rq[p].pc = "handler"
    /\ LET r == rq[p]
           ctx == CHOOSE u \in r.user : TRUE
       IN  IF ~IsAllowedAvatarKey(key)
           THEN /\ rq' = [rq EXCEPT ![p] = Respond(r, 400, "invalid key")]
                /\ users' = users
           ELSE IF ~found
           THEN /\ rq' = [rq EXCEPT ![p] = Respond(r, 400, "upload not found")]
                /\ users' = users
           ELSE /\ users' = UpdateUser(users, ctx.id, <<<<ctx.id, key[2]>>>>)
                /\ rq' = [rq EXCEPT ![p] = Respond(r, 200, "url")]
    /\ UNCHANGED <<sessions, nextId, now, streak>>

(***************************************************************************)
(* AuthHandler.HandleVerifyEmail and AuthHandler.HandleResendVerification. *)
(***************************************************************************)
\* SELECT ... FROM users WHERE email_verification_token_hash = $1.
GetUserByEmailVerificationTokenHash(rows, hash) ==
    {u \in rows : u.email_verification_token_hash = <<hash>>}

\* UPDATE users SET email_verified = TRUE, both token columns NULL.
VerifyUserEmail(rows, id) ==
    {IF u.id = id THEN [u EXCEPT !.email_verified = TRUE,
                                 !.email_verification_token_hash = <<>>,
                                 !.email_verification_expires_at = <<>>]
                  ELSE u : u \in rows}

\* The request arrives with the token of its query string (<<"none", 0>>:
\* missing or blank).
VeStart(p, token) ==
    /\ CanStart(p)
    /\ LET r == [RqIdle EXCEPT !.op = "verify", !.token = token]
       IN  rq' = [rq EXCEPT ![p] =
                IF token = <<"none", 0>> THEN Respond(r, 400, "invalid verification link")
                ELSE [r EXCEPT !.pc = "lookup"]]
    /\ UNCHANGED <<sessions, nextId, now, users, streak>>

\* GetUserByEmailVerificationTokenHash; no row is the 400 of an invalid link.
VeLookup(p) ==
    /\ rq[p].op = "verify" /\ rq[p].pc = "lookup"
    /\ LET r == rq[p]
           row == GetUserByEmailVerificationTokenHash(users, HashToken(r.token))
       IN  rq' = [rq EXCEPT ![p] =
                IF row = {} THEN Respond(r, 400, "invalid verification link")
                ELSE [r EXCEPT !.user = row, !.pc = "verify"]]
    /\ UNCHANGED <<sessions, nextId, now, users, streak>>

\* The expiry test on the row that was read, then VerifyUserEmail and its
\* audit row unless that row was verified already, then 200.
VeVerify(p) ==
    /\ rq[p].op = "verify" /\ rq[p].pc = "verify"
    /\ LET r == [rq[p] EXCEPT !.at = now]
           user == CHOOSE u \in r.user : TRUE
       IN  IF /\ user.email_verification_expires_at # <<>>
              /\ user.email_verification_expires_at[1] < now
           THEN /\ users' = users
                /\ rq' = [rq EXCEPT ![p] = Respond(r, 400, "verification link expired")]
           ELSE IF ~user.email_verified
           THEN /\ users' = VerifyUserEmail(users, user.id)
                /\ rq' = [rq EXCEPT ![p] =
                       Respond(Logged(r, "email_verified", user.id, ""), 200, "ok")]
           ELSE /\ users' = users
                /\ rq' = [rq EXCEPT ![p] = Respond(r, 200, "ok")]
    /\ UNCHANGED <<sessions, nextId, now, streak>>

\* HandleResendVerification up to the mail: allowRequest, GetUserByID, the
\* provider test, and nothing to send for a verified address.
\* Mutant of RsHandle: the fresh token is stored before the limiter is asked.
RsHandleTokenFirst(p, allowed) ==
    /\ rq[p].op = "resend" /\ rq[p].pc = "handler"
    /\ LET r == rq[p]
           ctx == CHOOSE u \in r.user : TRUE
           stored == CHOOSE u \in users : u.id = ctx.id
       IN  /\ rq' = [rq EXCEPT ![p] =
                IF ~allowed THEN Respond(r, 429, "too many requests")
                ELSE IF stored.provider # "credentials"
                THEN Respond(r, 400, "invalid credentials")
                ELSE IF stored.email_verified THEN Respond(r, 200, "ok")
                ELSE [r EXCEPT !.user = {stored}, !.pc = "mail"]]
           /\ users' = IF allowed THEN users
                       ELSE SetEmailVerificationToken(users, stored.id,
                                                      HashToken(<<"resend", resent + 1>>),
                                                      now + EmailVerificationTTL)
    /\ UNCHANGED <<sessions, nextId, now, streak, resent>>

RsHandle(p, allowed) ==
    /\ rq[p].op = "resend" /\ rq[p].pc = "handler"
    /\ LET r == rq[p]
           ctx == CHOOSE u \in r.user : TRUE
           stored == CHOOSE u \in users : u.id = ctx.id
       IN  rq' = [rq EXCEPT ![p] =
                IF ~allowed THEN Respond(r, 429, "too many requests")
                ELSE IF stored.provider # "credentials"
                THEN Respond(r, 400, "invalid credentials")
                ELSE IF stored.email_verified THEN Respond(r, 200, "ok")
                ELSE [r EXCEPT !.user = {stored}, !.pc = "mail"]]
    /\ UNCHANGED <<sessions, nextId, now, users, streak, resent>>

\* sendVerificationEmail (`sent`: whether the mailer's Send succeeded), then
\* the 200 response.  The token is fresh.
RsMail(p, sent) ==
    /\ rq[p].op = "resend" /\ rq[p].pc = "mail"
    /\ LET r == rq[p]
           user == CHOOSE u \in r.user : TRUE
           event == IF sent THEN "email_verification_sent" ELSE "email_send_failed"
       IN  /\ users' = SetEmailVerificationToken(users, user.id,
                                                 HashToken(<<"resend", resent + 1>>),
                                                 now + EmailVerificationTTL)
           /\ rq' = [rq EXCEPT ![p] = Respond(Logged(r, event, user.id, ""), 200, "ok")]
    /\ resent' = resent + 1
    /\ UNCHANGED <<sessions, nextId, now, streak>>

\* The resend requests in flight that have not drawn their token yet.
Resending == Cardinality({p \in Procs : rq[p].op = "resend" /\ rq[p].pc # "done"})

VerifyTick ==
    /\ now < MaxVerifyTime
    /\ now' = now + 1
    /\ UNCHANGED <<sessions, nextId, users, rq, streak, resent>>

\* The tokens a verification link may carry: none, one no mail carried, and
\* the ones the mails of this run carry.
VerifyTokens ==
    {<<"none", 0>>, <<"bogus", 0>>}
        \cup {<<"verify", i>> : i \in 1..MaxAuthSessions}
        \cup {<<"resend", i>> : i \in 1..MaxResends}

\* Register, Resend Verification and Verify Email for one address, served
\* concurrently while the clock runs.
NextVerify ==
    /\ \/ /\ \E p \in Procs : RgStart(p, "alice@x.io", PwGood, 0, TRUE)
          /\ UNCHANGED resent
       \/ /\ \E p \in Procs, tok \in 0..MaxAuthSessions :
                /\ resent + Resending < MaxResends
                /\ GtStart(p, "resend", tok, PwNone, PwNone)
          /\ UNCHANGED resent
       \/ /\ \E p \in Procs, token \in VerifyTokens : VeStart(p, token)
          /\ UNCHANGED resent
       \/ /\ \E p \in Procs : RgLookup(p) \/ RgCreate(p, "salt1") \/ RqRotate(p)
                                  \/ RqSession(p) \/ RgMail(p, TRUE) \/ RqReturn(p)
          /\ UNCHANGED resent
       \/ /\ \E p \in Procs : GtLookup(p) \/ GtCheck(p)
          /\ UNCHANGED resent
       \/ /\ \E p \in Procs : VeLookup(p) \/ VeVerify(p)
          /\ UNCHANGED resent
       \/ (\E p \in Procs, allowed \in BOOLEAN : RsHandle(p, allowed))
       \/ (\E p \in Procs, sent \in BOOLEAN : RsMail(p, sent))
       \/ VerifyTick
    /\ UNCHANGED mailRest

SpecVerify == Init /\ [][NextVerify]_vars

AuthTick ==
    /\ now < MaxAuthTime
    /\ now' = now + 1
    /\ UNCHANGED <<sessions, nextId, users, rq, streak>>

LoginInputs == {PwGood, PwOther, PwLong}
RegisterInputs == {PwGood, PwShort}

LgSteps(p) ==
    \/ LgLookup(p) \/ LgUnlock(p) \/ LgVerify(p) \/ LgIncrement(p)
    \/ (\E sent \in BOOLEAN : LgLock(p, sent))
    \/ LgReset(p)

RgSteps(p) ==
    \/ RgLookup(p) \/ (\E salt \in Salts : RgCreate(p, salt))
    \/ (\E sent \in BOOLEAN : RgMail(p, sent))

\* What the provider may answer to the userinfo request.
ClaimedSubs == {"", "sub-bob", "sub-eve"}
ClaimedEmails == {"", "alice@x.io", "bob@x.io"}

OaSteps(p) ==
    \/ OaExchange(p)
    \/ (\E sub \in GoogleSubs, raw \in GoogleEmails : OaUserInfo(p, TRUE, sub, raw, TRUE))
    \/ OaCheck(p) \/ OaUpsert(p)

RqShared(p) == RqRotate(p) \/ RqSession(p) \/ RqReturn(p)

LgStarts(p) ==
    \E raw \in RawEmails, pw \in LoginInputs, allowed \in BOOLEAN :
        LgStart(p, raw, pw, 0, allowed)

RgStarts(p) ==
    \E raw \in RegisterEmails, pw \in RegisterInputs, c \in 0..1, allowed \in BOOLEAN :
        RgStart(p, raw, pw, c, allowed)

\* Callbacks that carry what the login redirect handed out.
OaStarts(p) == \E c \in 0..1 : OaStart(p, "st1", "code-ok", "st1", "verifier-ok", c)

\* Register, Login and the Google callback, served one request at a time
\* while the clock runs.
NextAuthSeq ==
    /\ \/ (\E p \in Procs : (\A q \in Procs : rq[q].pc = "idle")
                              /\ (LgStarts(p) \/ RgStarts(p) \/ OaStarts(p)))
       \/ (\E p \in Procs : LgSteps(p) \/ RgSteps(p) \/ OaSteps(p) \/ RqShared(p))
       \/ AuthTick
    /\ UNCHANGED rqRest

SpecAuthSeq == Init /\ [][NextAuthSeq]_vars

\* Register and the Google callback, served concurrently.
(***************************************************************************)
(* The mailer call as a call: mailer.Send opens an SMTP dialogue            *)
(* (net.Dial, STARTTLS, AUTH, DATA) on the handler's goroutine and returns  *)
(* when the server has answered.                                           *)
(***************************************************************************)
\* HandleRegister up to the call of mailer.Send in sendVerificationEmail.
RgSendBegin(p) ==
    /\ rq[p].op = "register" /\ rq[p].pc = "mail"
    /\ LET user == CHOOSE u \in rq[p].user : TRUE
       IN  users' = SetEmailVerificationToken(users, user.id,
                                              HashToken(<<"verify", rq[p].created>>),
                                              now + EmailVerificationTTL)
    /\ rq' = [rq EXCEPT ![p].pc = "sending"]
    /\ UNCHANGED <<sessions, nextId, now, streak>>

\* mailer.Send returns; the audit entry, then writeJSON(200).
RgSendReturn(p, sent) ==
    /\ rq[p].op = "register" /\ rq[p].pc = "sending"
    /\ LET r == rq[p]
           user == CHOOSE u \in r.user : TRUE
           event == IF sent THEN "email_verification_sent" ELSE "email_send_failed"
       IN  rq' = [rq EXCEPT ![p] = Respond(Logged(r, event, user.id, ""), 200, "ok")]
    /\ UNCHANGED <<sessions, nextId, now, users, streak>>

\* HandleLogin after the 10th failure, up to the call of mailer.Send in
\* sendLockoutEmail.
LgSendBegin(p) ==
    /\ rq[p].op = "login" /\ rq[p].pc = "lock"
    /\ LET r == rq[p]
           user == CHOOSE u \in r.user : TRUE
       IN  /\ users' = LockUser(users, user.id, r.at + LockDuration)
           /\ rq' = [rq EXCEPT ![p] =
                  [Logged(r, "account_lockout", user.id, "") EXCEPT !.pc = "sending"]]
    /\ UNCHANGED <<sessions, nextId, now, streak>>

\* mailer.Send returns; the audit entries, then writeJSON(401).
LgSendReturn(p, sent) ==
    /\ rq[p].op = "login" /\ rq[p].pc = "sending"
    /\ LET r == rq[p]
           user == CHOOSE u \in r.user : TRUE
           r2 == IF sent THEN r ELSE Logged(r, "email_send_failed", user.id, "lockout")
       IN  rq' = [rq EXCEPT ![p] =
                  Respond(Logged(r2, "login_failure", user.id, "invalid_password"),
                          401, "invalid email or password")]
    /\ UNCHANGED <<sessions, nextId, now, users, streak>>

\* The steps the handler's goroutine takes by itself.
MailHandlerSteps(p) ==
    \/ RgLookup(p) \/ RgCreate(p, "salt1") \/ RgSendBegin(p)
    \/ LgLookup(p) \/ LgUnlock(p) \/ LgVerify(p) \/ LgIncrement(p) \/ LgReset(p)
    \/ LgSendBegin(p)
    \/ RqShared(p)

NextMail ==
    /\ \/ (\E p \in Procs : (\A q \in Procs : rq[q].pc = "idle")
                              /\ RgStart(p, "alice@x.io", PwGood, 0, TRUE))
       \/ (\E p \in Procs, pw \in {PwGood, PwOther} :
              (\A q \in Procs : rq[q].pc = "idle")
              /\ LgStart(p, "alice@x.io", pw, 0, TRUE))
       \/ (\E p \in Procs : MailHandlerSteps(p))
       \/ (\E p \in Procs, sent \in BOOLEAN : RgSendReturn(p, sent))
       \/ (\E p \in Procs, sent \in BOOLEAN : LgSendReturn(p, sent))
       \/ AuthTick
    /\ UNCHANGED rqRest

\* The handler's goroutine runs on whenever it can.  When Send returns is the
\* SMTP server's matter: Send sets no deadline and ignores its context.
SpecMail ==
    /\ Init
    /\ [][NextMail]_vars
    /\ WF_vars((\E p \in Procs : MailHandlerSteps(p)) /\ UNCHANGED rqRest)

(***************************************************************************)
(* Concurrent Login requests for one user.  Each worker serves one request *)
(* at a time; the requests interleave at the store queries.                *)
(***************************************************************************)
\* Logins overlap from the moment the requests that can be in flight together
\* could bring the counter to the limit; before that none writes the lock.
LgStartRace(p, pw) ==
    /\ \/ \A q \in Procs : rq[q].pc = "idle"
       \/ \E u \in users : u.failed_login_attempts + MaxProcs >= MaxFailedLogins
    /\ users # {}
    /\ LgStart(p, "alice@x.io", pw, 0, TRUE)

NextLoginRace ==
    /\ \/ (\E p \in Procs : (\A q \in Procs : rq[q].pc = "idle")
                              /\ RgStart(p, "alice@x.io", PwGood, 0, TRUE))
       \/ (\E p \in Procs, pw \in {PwGood, PwOther} : LgStartRace(p, pw))
       \/ (\E p \in Procs : RgLookup(p) \/ RgCreate(p, "salt1") \/ RgMail(p, TRUE))
       \/ (\E p \in Procs : LgSteps(p))
       \/ (\E p \in Procs : RqShared(p))
       \/ AuthTick
    /\ UNCHANGED rqRest

SpecLoginRace == Init /\ [][NextLoginRace]_vars

NextRegister ==
    /\ \/ (\E p \in Procs : RgStarts(p) \/ OaStarts(p))
       \/ (\E p \in Procs : RgSteps(p) \/ OaSteps(p) \/ RqShared(p))
    /\ UNCHANGED rqRest

SpecRegister == Init /\ [][NextRegister]_vars

\* Callbacks with any parameters and cookies, and any answer of the provider.
CallbackStates == {"", "st1", "st2"}
CallbackCodes == {"", "code-ok", "code-bad"}
StateCookies == {"", "st1"}
VerifierCookies == {"", "verifier-ok", "verifier-bad"}

OaStartsAny(p) ==
    \E state \in CallbackStates, code \in CallbackCodes, stateCookie \in StateCookies,
       verifier \in VerifierCookies :
        OaStart(p, state, code, stateCookie, verifier, 0)

OaStepsAny(p) ==
    \/ OaExchange(p)
    \/ (\E ok \in BOOLEAN, sub \in ClaimedSubs, raw \in ClaimedEmails, verified \in BOOLEAN :
            OaUserInfo(p, ok, sub, raw, verified))
    \/ OaCheck(p) \/ OaUpsert(p)

\* Google callbacks of any shape and Register requests, served one at a time.
NextOAuthSeq ==
    /\ \/ (\E p \in Procs : (\A q \in Procs : rq[q].pc = "idle") /\ OaStartsAny(p))
       \/ (\E p \in Procs, raw \in ClaimedEmails :
              (\A q \in Procs : rq[q].pc = "idle") /\ RgStart(p, raw, PwGood, 0, TRUE))
       \/ (\E p \in Procs : OaStepsAny(p) \/ RgSteps(p) \/ RqShared(p))
    /\ UNCHANGED rqRest

SpecOAuthSeq == Init /\ [][NextOAuthSeq]_vars

\* Well-formed Google callbacks served concurrently with each other and with
\* Register requests for the same addresses.
NextOAuthLink ==
    /\ \/ (\E p \in Procs : OaStart(p, "st1", "code-ok", "st1", "verifier-ok", 0))
       \/ (\E p \in Procs, raw \in ClaimedEmails \ {""} : RgStart(p, raw, PwGood, 0, TRUE))
       \/ (\E p \in Procs : OaExchange(p) \/ OaCheck(p) \/ OaUpsert(p))
       \/ (\E p \in Procs, sub \in ClaimedSubs \ {""}, raw \in ClaimedEmails \ {""} :
              OaUserInfo(p, TRUE, sub, raw, TRUE))
       \/ (\E p \in Procs : RgLookup(p) \/ RgCreate(p, "salt1"))
       \/ (\E p \in Procs : RgMail(p, TRUE))
       \/ (\E p \in Procs : RqShared(p))
    /\ UNCHANGED rqRest

SpecOAuthLink == Init /\ [][NextOAuthLink]_vars

GateTick ==
    /\ now < MaxGateTime
    /\ now' = now + 1
    /\ UNCHANGED <<sessions, nextId, users, rq, streak>>

GtSteps(p) ==
    \/ GtLookup(p) \/ GtCheck(p) \/ MeHandle(p)
    \/ (\E allowed \in BOOLEAN : LoHandle(p, allowed))
    \/ (\E allowed \in BOOLEAN : CpHandle(p, allowed))
    \/ CpUpdate(p, "salt2")
    \/ CpRevoke(p)

\* New passwords offered to Change Password: an acceptable one and one the
\* policy rejects.
PasswordInputs == {PwGood, PwShort}

GtStarts(p) ==
    \E op \in SessionOps, tok \in 0..MaxAuthSessions, pw \in {PwGood, PwOther},
       newPw \in PasswordInputs :
        /\ op # "password" => (pw = PwGood /\ newPw = PwGood)
        /\ GtStart(p, op, tok, pw, newPw)

\* Register and Login with one address and its password, and the gated
\* requests, served one at a time while the clock runs.  The password stays
\* the registered one, so no login fails.
NextGate ==
    /\ \/ (\E p \in Procs : (\A q \in Procs : rq[q].pc = "idle") /\ GtStarts(p))
       \/ (\E p \in Procs : (\A q \in Procs : rq[q].pc = "idle")
                               /\ RgStart(p, "alice@x.io", PwGood, 0, TRUE))
       \/ (\E p \in Procs :
              (\A q \in Procs : rq[q].pc = "idle") /\ LgStart(p, "alice@x.io", PwGood, 0, TRUE))
       \/ (\E p \in Procs : GtSteps(p) \/ RqShared(p))
       \/ (\E p \in Procs : RgLookup(p) \/ RgCreate(p, "salt1") \/ RgMail(p, TRUE))
       \/ (\E p \in Procs : LgLookup(p) \/ LgVerify(p) \/ LgReset(p))
       \/ GateTick
    /\ UNCHANGED rqRest

SpecGate == Init /\ [][NextGate]_vars

(***************************************************************************)
(* Requests sent one after the other by one client: the next request       *)
(* starts when the response of the one before has been written, and the    *)
(* worker that wrote it still holds the exchange.                          *)
(***************************************************************************)
NoneInFlight == \A q \in Procs : rq[q].pc \in {"idle", "done"}

NextLogoutTwice ==
    /\ \/ (\E p \in Procs : NoneInFlight /\ RgStart(p, "alice@x.io", PwGood, 0, TRUE))
       \/ (\E p \in Procs, tok \in 0..MaxAuthSessions :
              NoneInFlight /\ GtStart(p, "logout", tok, PwGood, PwGood))
       \/ (\E p \in Procs : GtLookup(p) \/ GtCheck(p))
       \/ (\E p \in Procs, allowed \in BOOLEAN : LoHandle(p, allowed))
       \/ (\E p \in Procs : RgLookup(p) \/ RgCreate(p, "salt1") \/ RgMail(p, TRUE))
       \/ (\E p \in Procs : RqShared(p))
       \/ (NoneInFlight /\ GateTick)
    /\ UNCHANGED rqRest

SpecLogoutTwice == Init /\ [][NextLogoutTwice]_vars

\* Change Password requests, one at a time, by a credentials account and by a
\* Google account.  Time passes between requests once the sessions are
\* issued, so the session check refreshes last_active_at of an older row.
NextChangePassword ==
    /\ \/ (\E p \in Procs : (\A q \in Procs : rq[q].pc = "idle")
                              /\ RgStart(p, "alice@x.io", PwGood, 0, TRUE))
       \/ (\E p \in Procs : (\A q \in Procs : rq[q].pc = "idle")
                              /\ OaStart(p, "st1", "code-ok", "st1", "verifier-ok", 0))
       \/ (\E p \in Procs, tok \in 1..MaxAuthSessions, pw \in {PwGood, PwOther},
              newPw \in {PwOther, PwShort, PwLong} :
              (\A q \in Procs : rq[q].pc = "idle") /\ GtStart(p, "password", tok, pw, newPw))
       \/ (\E p \in Procs : RgLookup(p) \/ RgCreate(p, "salt1") \/ RgMail(p, TRUE))
       \/ (\E p \in Procs : OaExchange(p) \/ OaCheck(p) \/ OaUpsert(p))
       \/ (\E p \in Procs : OaUserInfo(p, TRUE, "sub-bob", "bob@x.io", TRUE))
       \/ (\E p \in Procs : GtLookup(p) \/ GtCheck(p))
       \/ (\E p \in Procs, allowed \in BOOLEAN : CpHandle(p, allowed))
       \/ (\E p \in Procs : CpUpdate(p, "salt2") \/ CpRevoke(p))
       \/ (\E p \in Procs : RqShared(p))
       \/ ((\A q \in Procs : rq[q].pc = "idle") /\ nextId > MaxAuthSessions /\ GateTick)
    /\ UNCHANGED rqRest

SpecChangePassword == Init /\ [][NextChangePassword]_vars

\* Failed logins a run of limited requests may accumulate.
MaxRateFails == 2

\* Requests on the five limited routes, one at a time, each let through or
\* turned away by the limiter.
NextRateLimited ==
    /\ \/ /\ \E p \in Procs, allowed \in BOOLEAN :
                /\ \A q \in Procs : rq[q].pc = "idle"
                /\ RgStart(p, "alice@x.io", PwGood, 0, allowed)
          /\ UNCHANGED resent
       \/ /\ \E p \in Procs, pw \in {PwGood, PwOther}, allowed \in BOOLEAN :
                /\ \A q \in Procs : rq[q].pc = "idle"
                /\ users # {}
                /\ \A u \in users : u.failed_login_attempts < MaxRateFails
                /\ LgStart(p, "alice@x.io", pw, 0, allowed)
          /\ UNCHANGED resent
       \/ /\ \E p \in Procs, op \in {"logout", "password", "resend"},
                tok \in 1..MaxAuthSessions :
                /\ \A q \in Procs : rq[q].pc = "idle"
                /\ op = "resend" => resent < MaxResends
                /\ GtStart(p, op, tok, PwGood, PwOther)
          /\ UNCHANGED resent
       \/ /\ \E p \in Procs : RgLookup(p) \/ RgCreate(p, "salt1") \/ RgMail(p, TRUE)
          /\ UNCHANGED resent
       \/ /\ \E p \in Procs : LgLookup(p) \/ LgVerify(p) \/ LgIncrement(p) \/ LgReset(p)
          /\ UNCHANGED resent
       \/ /\ \E p \in Procs : GtLookup(p) \/ GtCheck(p)
          /\ UNCHANGED resent
       \/ /\ \E p \in Procs, allowed \in BOOLEAN : LoHandle(p, allowed) \/ CpHandle(p, allowed)
          /\ UNCHANGED resent
       \/ /\ \E p \in Procs : CpUpdate(p, "salt2") \/ CpRevoke(p) \/ RqShared(p)
          /\ UNCHANGED resent
       \/ (\E p \in Procs, allowed \in BOOLEAN : RsHandle(p, allowed))
       \/ (\E p \in Procs : RsMail(p, TRUE))
    /\ UNCHANGED mailRest

SpecRateLimited == Init /\ [][NextRateLimited]_vars

\* Register with two addresses and Login with the first, carrying no session
\* cookie or the cookie of a token issued earlier, and the gated requests,
\* served one at a time while the clock stands still.
RotateStarts(p) ==
    \E cookieIn \in 0..MaxAuthSessions :
        /\ cookieIn < nextId
        /\ \/ (\E raw \in {"alice@x.io", "bob@x.io"} :
                  RgStart(p, raw, PwGood, cookieIn, TRUE))
           \/ LgStart(p, "alice@x.io", PwGood, cookieIn, TRUE)

NextRotate ==
    /\ \/ (\E p \in Procs : (\A q \in Procs : rq[q].pc = "idle") /\ GtStarts(p))
       \/ (\E p \in Procs : (\A q \in Procs : rq[q].pc = "idle") /\ RotateStarts(p))
       \/ (\E p \in Procs : GtSteps(p) \/ RqShared(p))
       \/ (\E p \in Procs : RgLookup(p) \/ RgCreate(p, "salt1") \/ RgMail(p, TRUE))
       \/ (\E p \in Procs : LgLookup(p) \/ LgVerify(p) \/ LgReset(p))
    /\ UNCHANGED rqRest

SpecRotate == Init /\ [][NextRotate]_vars

\* Register, Login and Change Password with passwords of every length,
\* among them one of 1001 characters, served one at a time while the clock
\* stands still.
PlaintextStarts(p) ==
    \/ (\E pw \in {PwGood, PwLong} : RgStart(p, "alice@x.io", pw, 0, TRUE))
    \/ (\E raw \in {"alice@x.io", "bob@x.io"}, pw \in {PwGood, PwOther, PwLong} :
            LgStart(p, raw, pw, 0, TRUE))
    \/ (\E tok \in 1..MaxAuthSessions, pw \in {PwGood, PwOther, PwLong},
           newPw \in {PwOther, PwShort, PwLong} : GtStart(p, "password", tok, pw, newPw))

NextPlaintext ==
    /\ \/ (\E p \in Procs : (\A q \in Procs : rq[q].pc = "idle") /\ PlaintextStarts(p))
       \/ (\E p \in Procs : GtLookup(p) \/ GtCheck(p) \/ CpHandle(p, TRUE))
       \/ (\E p \in Procs : CpUpdate(p, "salt2") \/ CpRevoke(p) \/ RqShared(p))
       \/ (\E p \in Procs : RgLookup(p) \/ RgCreate(p, "salt1") \/ RgMail(p, TRUE))
       \/ (\E p \in Procs : LgLookup(p) \/ LgVerify(p) \/ LgReset(p))
       \/ (\E p \in Procs : LgIncrement(p) \/ LgLock(p, TRUE))
    /\ UNCHANGED rqRest

SpecPlaintext == Init /\ [][NextPlaintext]_vars

\* Values of AUTH_POST_LOGIN_REDIRECT_URL and APP_BASE_URL the process may be
\* started with.
RedirectURLs == {"", "https://app.example/home", "https://evil.example/home"}
BaseURLs == {"", "https://app.example/"}

InitRedirect ==
    \E redirect \in RedirectURLs, base \in BaseURLs :
        Booted(Load(Environment(redirect, base)), CommonPasswords)

\* Google callbacks that carry what the login redirect handed out, served
\* one at a time by a process started in any of the environments.
NextRedirect ==
    /\ \/ (\E p \in Procs : (\A q \in Procs : rq[q].pc = "idle") /\ OaStarts(p))
       \/ (\E p \in Procs : OaSteps(p) \/ RqShared(p))
    /\ UNCHANGED rqRest

SpecRedirect == InitRedirect /\ [][NextRedirect]_vars

\* The value written with the letters at the positions `caps` in capitals
\* and every other letter in lower case.
Recased(chars, caps) ==
    [i \in DOMAIN chars |->
        LET c == ToLower(chars)[i]
        IN  IF i \in caps /\ IsLower(c)
            THEN UpperLetters[CHOOSE k \in DOMAIN LowerLetters : LowerLetters[k] = c]
            ELSE c]

CaseVariants(chars) == {Recased(chars, caps) : caps \in SUBSET DOMAIN chars}

\* Passwords for the policy: every way of writing two deny-list entries in
\* capitals and lower case, values at the edges of the length rule, and
\* values that break one rule or several.
PolicyInputs ==
    {PwOf(v, 0) : v \in CaseVariants(<<"P", "a", "s", "s", "w", "o", "r", "d", "1", "!">>)
                       \cup CaseVariants(<<"W", "e", "l", "c", "o", "m", "e", "1", "!">>)}
    \cup {PwOf(<<"A", "a", "1", "!", "A", "a", "1">>, 0), PwOf(<<"A", "a", "1", "!", "A", "a", "1", "!">>, 0),
          PwOf(<<"A", "a", "1", "!">>, 996), PwOf(<<"A", "a", "1", "!">>, 997),
          PwOf(<<"a", "a", "1", "!">>, 997), PwOf(<<"s", "h", "o", "r", "t">>, 0),
          PwOf(<<"l", "o", "w", "e", "r", "c", "a", "s", "e", "1", "!">>, 0), PwOf(<<"N", "o", "D", "i", "g", "i", "t", "s", "!">>, 0),
          PwOf(<<"N", "o", "S", "p", "e", "c", "i", "a", "l", "1">>, 0), PwOf(<<"l", "o", "w", "e", "r", "n", "o", "d", "i", "g", "i", "t">>, 0),
          PwOf(<<"U", "P", "P", "E", "R", "O", "N", "L", "Y">>, 0), PwGood}

\* A process built from either copy of the deny-list.
InitPolicy ==
    \E keys \in {CommonPasswords, CommonPasswordsLower} :
        Booted(Load(Environment("", "")), keys)

\* Register requests with any of the passwords, served one at a time, up to
\* the first that creates a user.
NextPolicy ==
    /\ \/ (\E p \in Procs, pw \in PolicyInputs :
              /\ users = {} /\ \A q \in Procs : rq[q].pc = "idle"
              /\ RgStart(p, "alice@x.io", pw, 0, TRUE))
       \/ (\E p \in Procs : RgLookup(p) \/ RgCreate(p, "salt1") \/ RgMail(p, TRUE))
       \/ (\E p \in Procs : RqShared(p))
    /\ UNCHANGED rqRest

SpecPolicy == InitPolicy /\ [][NextPolicy]_vars

(***************************************************************************)
(* The sliding-window limiter: Handler.allowRequest and                    *)
(* ValkeyLimiter.Allow.  A key of the store holds a sorted set (member,    *)
(* score) and an expiry; one action per store command of the pipeline.     *)
(***************************************************************************)

\* The store's view of a key at the current instant: a key whose expiry has
\* been reached no longer exists.
Live(k) ==
    IF valkey[k].ttl # 0 /\ valkey[k].ttl <= now THEN EmptyKey ELSE valkey[k]

\* allowRequest's unconditional allow: limiting disabled, a rule without a
\* positive limit or window, or no limiter.
Unlimited(enabled, limit, window, configured) ==
    \/ ~enabled
    \/ limit <= 0
    \/ window <= 0
    \/ ~configured

\* A worker starts a check only when every lower-numbered worker is busy.
LmCanStart(p) ==
    /\ lm[p].pc = "idle"
    /\ \A q \in 1..(p - 1) : lm[q].pc # "idle"

\* The commands Allow queues on the pipeline, in the order it queues them.
PipelineCountFirst == <<"zremrangebyscore", "zcard", "zadd", "expire">>

Pipeline == <<"zadd", "zremrangebyscore", "zcard", "expire">>

\* allowRequest up to the point where Allow has read the clock and named its
\* member.  `raced` is a ghost: another check was in flight at that point.
allowRequest(p, key, enabled, limit, window, configured) ==
    /\ LmCanStart(p)
    /\ IF Unlimited(enabled, limit, window, configured)
       THEN /\ lm' = [lm EXCEPT ![p] =
                        [LmIdle EXCEPT !.pc = "done", !.key = key, !.limit = limit,
                                       !.window = window, !.enabled = enabled,
                                       !.configured = configured,
                                       !.allowed = TRUE]]
            /\ UNCHANGED lmCalls
       ELSE /\ lmCalls < MaxAllowCalls
            /\ lm' = [lm EXCEPT ![p] =
                        [LmIdle EXCEPT !.pc = "pipe", !.step = 1, !.key = key,
                                       !.limit = limit, !.window = window,
                                       !.enabled = enabled,
                                       !.configured = configured,
                                       !.at = now, !.member = lmCalls + 1,
                                       !.raced = \E q \in Procs \ {p} :
                                                    lm[q].pc = "pipe"]]
            /\ lmCalls' = lmCalls + 1
    /\ UNCHANGED <<valkey, history, now>>

Queued(p, cmd) ==
    /\ lm[p].pc = "pipe"
    /\ lm[p].step <= Len(Pipeline)
    /\ Pipeline[lm[p].step] = cmd

Issued(r) == [r EXCEPT !.step = r.step + 1, !.commands = r.commands + 1]

\* ZADD key score member.
\* Mutant of ZAdd: a call that finds its window full does not record itself.
ZAddIfRoom(p) ==
    /\ Queued(p, "zadd")
    /\ LET inWindow == {m \in Live(lm[p].key).members :
                           m.score > lm[p].at - lm[p].window}
       IN  valkey' = [valkey EXCEPT ![lm[p].key] =
                    [members |-> IF Cardinality(inWindow) < lm[p].limit
                                 THEN Live(lm[p].key).members \cup
                                         {[member |-> lm[p].member, score |-> lm[p].at]}
                                 ELSE Live(lm[p].key).members,
                     ttl |-> Live(lm[p].key).ttl]]
    /\ lm' = [lm EXCEPT ![p] = Issued(lm[p])]
    /\ UNCHANGED <<lmCalls, history, now>>

ZAdd(p) ==
    /\ Queued(p, "zadd")
    /\ valkey' = [valkey EXCEPT ![lm[p].key] =
                    [members |-> Live(lm[p].key).members \cup
                                    {[member |-> lm[p].member, score |-> lm[p].at]},
                     ttl |-> Live(lm[p].key).ttl]]
    /\ lm' = [lm EXCEPT ![p] = Issued(lm[p])]
    /\ UNCHANGED <<lmCalls, history, now>>

\* ZREMRANGEBYSCORE key 0 windowStart; a set left empty is removed.
ZRemRangeByScore(p) ==
    /\ Queued(p, "zremrangebyscore")
    /\ LET windowStart == lm[p].at - lm[p].window
           kept == {m \in Live(lm[p].key).members :
                        ~(0 <= m.score /\ m.score <= windowStart)}
       IN valkey' = [valkey EXCEPT ![lm[p].key] =
                        IF kept = {} THEN EmptyKey
                        ELSE [members |-> kept, ttl |-> Live(lm[p].key).ttl]]
    /\ lm' = [lm EXCEPT ![p] = Issued(lm[p])]
    /\ UNCHANGED <<lmCalls, history, now>>

\* ZCARD key.
ZCard(p) ==
    /\ Queued(p, "zcard")
    /\ valkey' = [valkey EXCEPT ![lm[p].key] = Live(lm[p].key)]
    /\ lm' = [lm EXCEPT ![p] =
                [Issued(lm[p]) EXCEPT !.count = Cardinality(Live(lm[p].key).members)]]
    /\ UNCHANGED <<lmCalls, history, now>>

\* EXPIRE key window+1s; no effect on a key that does not exist.
Expire(p) ==
    /\ Queued(p, "expire")
    /\ valkey' = [valkey EXCEPT ![lm[p].key] =
                    IF Live(lm[p].key).members = {} THEN EmptyKey
                    ELSE [Live(lm[p].key) EXCEPT !.ttl = now + lm[p].window + 1]]
    /\ lm' = [lm EXCEPT ![p] = Issued(lm[p])]
    /\ UNCHANGED <<lmCalls, history, now>>

\* pipe.Exec returns an error: the commands not yet run are lost.
ExecFailClosed(p) ==
    /\ lm[p].pc = "pipe"
    /\ lm' = [lm EXCEPT ![p] = [@ EXCEPT !.pc = "done", !.allowed = FALSE,
                                         !.err = TRUE]]
    /\ UNCHANGED <<valkey, lmCalls, history, now>>

ExecError(p) ==
    /\ lm[p].pc = "pipe"
    /\ lm' = [lm EXCEPT ![p] = [@ EXCEPT !.pc = "done", !.allowed = TRUE,
                                         !.err = TRUE]]
    /\ UNCHANGED <<valkey, lmCalls, history, now>>

\* pipe.Exec returns without error.
ExecStrict(p) ==
    /\ lm[p].pc = "pipe"
    /\ lm[p].step > Len(Pipeline)
    /\ lm' = [lm EXCEPT ![p] = [@ EXCEPT !.pc = "done",
                                         !.allowed = (lm[p].count < lm[p].limit)]]
    /\ UNCHANGED <<valkey, lmCalls, history, now>>

Exec(p) ==
    /\ lm[p].pc = "pipe"
    /\ lm[p].step > Len(Pipeline)
    /\ lm' = [lm EXCEPT ![p] = [@ EXCEPT !.pc = "done",
                                         !.allowed = (lm[p].count <= lm[p].limit)]]
    /\ UNCHANGED <<valkey, lmCalls, history, now>>

\* allowRequest returns; a check that reached Allow is appended to the
\* key's history.
LmReturn(p) ==
    /\ lm[p].pc = "done"
    /\ history' = IF lm[p].member = 0 THEN history
                  ELSE [history EXCEPT ![lm[p].key] =
                            Append(@, [at |-> lm[p].at, allowed |-> lm[p].allowed,
                                       err |-> lm[p].err, raced |-> lm[p].raced])]
    /\ lm' = [lm EXCEPT ![p] = LmIdle]
    /\ UNCHANGED <<valkey, lmCalls, now>>

LmCommands(p) ==
    ZAdd(p) \/ ZRemRangeByScore(p) \/ ZCard(p) \/ Expire(p) \/ Exec(p) \/ LmReturn(p)

\* Sequential checks: the pipeline runs at one instant, the clock moves
\* between checks.
LmTick ==
    /\ now < MaxLimiterTime
    /\ \A p \in Procs : lm[p].pc = "idle"
    /\ now' = now + 1
    /\ UNCHANGED <<valkey, lm, lmCalls, history>>

NextLimiterSeq ==
    /\ \/ \E p \in Procs :
            /\ \A q \in Procs : lm[q].pc = "idle"
            /\ \E key \in LimiterKeys :
                  allowRequest(p, key, TRUE, RuleLimit, RuleWindow, TRUE)
       \/ (\E p \in Procs : LmCommands(p))
       \/ LmTick
    /\ UNCHANGED lmRest

SpecLimiterSeq == Init /\ [][NextLimiterSeq]_vars

\* The rules and switches allowRequest may be called with.
RuleLimits == {-1, 0, RuleLimit}
RuleWindows == {0, RuleWindow}
AllowKeys == {"rl:register:ip"}

\* Sequential calls on one key under a rule with a small limit, so that a
\* client goes on calling after it was denied.
TightLimit == 1

NextLimiterTight ==
    /\ \/ \E p \in Procs :
            /\ \A q \in Procs : lm[q].pc = "idle"
            /\ \E key \in AllowKeys :
                  allowRequest(p, key, TRUE, TightLimit, RuleWindow, TRUE)
       \/ (\E p \in Procs : LmCommands(p))
       \/ LmTick
    /\ UNCHANGED lmRest

SpecLimiterTight == Init /\ [][NextLimiterTight]_vars

\* Sequential checks under any configuration, with a store that may fail;
\* the verdicts at stake do not depend on the clock, which stands still.
NextAllow ==
    /\ \/ \E p \in Procs :
            /\ \A q \in Procs : lm[q].pc = "idle"
            /\ \E key \in AllowKeys, enabled \in BOOLEAN, limit \in RuleLimits,
                  window \in RuleWindows, configured \in BOOLEAN :
                  allowRequest(p, key, enabled, limit, window, configured)
       \/ (\E p \in Procs : LmCommands(p))
       \/ (\E p \in Procs : ExecError(p))
    /\ UNCHANGED lmRest

SpecAllow == Init /\ [][NextAllow]_vars

\* Concurrent checks on one key: the clock may move between any two store
\* commands, and every reading stays inside one window.
LmTickWithin ==
    /\ now < RuleWindow - 1
    /\ now < MaxRaceTime
    /\ now' = now + 1
    /\ UNCHANGED <<valkey, lm, lmCalls, history>>

NextLimiter ==
    /\ \/ \E p \in Procs, key \in AllowKeys :
            /\ lmCalls < MaxRaceCalls
            /\ allowRequest(p, key, TRUE, RuleLimit, RuleWindow, TRUE)
       \/ (\E p \in Procs : LmCommands(p))
       \/ LmTickWithin
    /\ UNCHANGED lmRest

SpecLimiter == Init /\ [][NextLimiter]_vars

\* Every operation that writes user rows, for two addresses and two Google
\* subjects, served one request at a time.
NextRows ==
    /\ \/ /\ \E p \in Procs :
                /\ \A q \in Procs : rq[q].pc = "idle"
                /\ \/ RgStart(p, "alice@x.io", PwGood, 0, TRUE)
                   \/ (\E pw \in {PwGood, PwOther} : LgStart(p, "alice@x.io", pw, 0, TRUE))
                   \/ OaStart(p, "st1", "code-ok", "st1", "verifier-ok", 0)
                   \/ (\E op \in {"password", "avatar"}, tok \in 1..MaxAuthSessions :
                          GtStart(p, op, tok, PwGood, PwOther))
                   \/ (\E tok \in 1..MaxAuthSessions :
                          /\ resent < MaxResends
                          /\ GtStart(p, "resend", tok, PwNone, PwNone))
                   \/ (\E token \in VerifyTokens : VeStart(p, token))
          /\ UNCHANGED resent
       \/ /\ \E p \in Procs :
                \/ LgLookup(p) \/ LgVerify(p) \/ LgIncrement(p) \/ LgReset(p)
                \/ RgLookup(p) \/ RgCreate(p, "salt1") \/ RgMail(p, TRUE)
                \/ OaExchange(p) \/ OaCheck(p) \/ OaUpsert(p)
                \/ (\E sub \in ClaimedSubs \ {""}, raw \in ClaimedEmails \ {""} :
                       OaUserInfo(p, TRUE, sub, raw, TRUE))
                \/ GtLookup(p) \/ GtCheck(p)
                \/ CpHandle(p, TRUE) \/ CpUpdate(p, "salt2") \/ CpRevoke(p)
                \/ (\E key \in AvatarKeys, found \in BOOLEAN : AvHandle(p, key, found))
                \/ VeLookup(p) \/ VeVerify(p)
                \/ RqShared(p)
          /\ UNCHANGED resent
       \/ (\E p \in Procs : RsHandle(p, TRUE))
       \/ (\E p \in Procs : RsMail(p, TRUE))
    /\ UNCHANGED mailRest

SpecRows == Init /\ [][NextRows]_vars

(***************************************************************************)
(* Best-effort side effects.  Every request is served twice from the same  *)
(* state: once, then the tables are put back as they were and the request  *)
(* is served again, while audit inserts and mail sends succeed or fail     *)
(* independently in the two runs.  The clock stands still, so that both    *)
(* runs read the same time.                                                *)
(***************************************************************************)
EffectInputs ==
    {[NoInput EXCEPT !.kind = "register", !.raw = "alice@x.io", !.pw = PwGood, !.tok = c] :
        c \in 0..1}
    \cup {[NoInput EXCEPT !.kind = "login", !.raw = "alice@x.io", !.pw = pw] :
            pw \in {PwGood, PwOther}}
    \cup {[NoInput EXCEPT !.kind = "oauth", !.tok = c] : c \in 0..1}
    \cup {[NoInput EXCEPT !.kind = "logout", !.tok = c] : c \in 1..MaxAuthSessions}
    \cup {[NoInput EXCEPT !.kind = "password", !.tok = c, !.pw = PwGood, !.newPw = PwGood] :
            c \in 1..MaxAuthSessions}

\* The handler the request is routed to, with every rate limit passed.
EfBegin(p, in) ==
    CASE in.kind = "register" -> RgStart(p, in.raw, in.pw, in.tok, TRUE)
      [] in.kind = "login" -> LgStart(p, in.raw, in.pw, 0, TRUE)
      [] in.kind = "oauth" -> OaStart(p, "st1", "code-ok", "st1", "verifier-ok", in.tok)
      [] OTHER -> GtStart(p, in.kind, in.tok, in.pw, in.newPw)

\* A request arrives; the state it meets is recorded.
EfStart(p, in) ==
    /\ twin.phase = "idle"
    /\ EfBegin(p, in)
    /\ twin' = [TwinIdle EXCEPT !.phase = "first", !.input = in, !.users = users,
                                !.sessions = sessions, !.nextId = nextId,
                                !.streak = streak]
    /\ UNCHANGED auditUp

\* The first run has answered: its outcome is recorded and the tables are
\* put back.
EfRewind(p) ==
    /\ twin.phase = "first"
    /\ rq[p].pc = "done"
    /\ twin' = [twin EXCEPT !.phase = "rewound", !.status = rq[p].status,
                            !.body = rq[p].body, !.cookie = rq[p].cookie,
                            !.cookieCleared = rq[p].cookieCleared,
                            !.audit = rq[p].audit, !.usersAfter = users,
                            !.sessionsAfter = sessions]
    /\ users' = twin.users
    /\ sessions' = twin.sessions
    /\ nextId' = twin.nextId
    /\ streak' = twin.streak
    /\ rq' = [rq EXCEPT ![p] = RqIdle]
    /\ UNCHANGED <<now, auditUp>>

\* The same request arrives again.
EfAgain(p) ==
    /\ twin.phase = "rewound"
    /\ EfBegin(p, twin.input)
    /\ twin' = [twin EXCEPT !.phase = "second"]
    /\ UNCHANGED auditUp

\* The second run has answered.
EfReturn(p) ==
    /\ twin.phase = "second"
    /\ RqReturn(p)
    /\ twin' = TwinIdle
    /\ UNCHANGED auditUp

\* The audit table starts or stops accepting inserts.
EfFlip ==
    /\ auditUp' = ~auditUp
    /\ UNCHANGED <<sessions, nextId, now, users, rq, streak, twin>>

EfSteps(p) ==
    \/ LgLookup(p) \/ LgVerify(p) \/ LgIncrement(p) \/ LgReset(p)
    \/ (\E sent \in BOOLEAN : LgLock(p, sent))
    \/ RgLookup(p) \/ RgCreate(p, "salt1")
    \/ (\E sent \in BOOLEAN : RgMail(p, sent))
    \/ OaExchange(p) \/ OaUserInfo(p, TRUE, "sub-bob", "bob@x.io", TRUE)
    \/ OaCheck(p) \/ OaUpsert(p)
    \/ GtLookup(p) \/ GtCheck(p) \/ LoHandle(p, TRUE)
    \/ CpHandle(p, TRUE) \/ CpUpdate(p, "salt1") \/ CpRevoke(p)
    \/ RqRotate(p) \/ RqSession(p)

NextEffects ==
    /\ \/ (\E p \in Procs, in \in EffectInputs : EfStart(p, in))
       \/ (\E p \in Procs : EfSteps(p) /\ UNCHANGED <<auditUp, twin>>)
       \/ (\E p \in Procs : EfRewind(p))
       \/ (\E p \in Procs : EfAgain(p))
       \/ (\E p \in Procs : EfReturn(p))
       \/ EfFlip
    /\ UNCHANGED effectRest

SpecEffects == Init /\ [][NextEffects]_vars

(***************************************************************************)
(* Claims on the session cap.                                              *)
(***************************************************************************)
CapQuiescent == \A p \in Procs : cs[p].pc \in {"idle", "returned"}

\* C1 (as claimed): a CreateSession call that runs alone for a user who holds
\* SessionLimit (5) rows and returns without error leaves the user with exactly
\* 5 rows, the one row removed being the oldest of the 5 it found.
C1_SixthSessionKeepsFive ==
    \A p \in Procs :
        (/\ cs[p].pc = "returned"
         /\ cs[p].err = "nil"
         /\ Cardinality(cs[p].before) = SessionLimit)
        => /\ CountUserSessions(sessions, cs[p].user) = SessionLimit
           /\ \E o \in GetOldestUserSession(cs[p].before, cs[p].user) :
                  cs[p].before \ sessions = {o}

\* C2 (as claimed): in every reachable state, the intermediate states of
\* concurrent CreateSession calls included, no user holds more than 5 rows.
C2_NeverMoreThanFive ==
    \A u \in CapUsers : CountUserSessions(sessions, u) <= SessionLimit

\* C3: once every concurrent CreateSession call has returned, the user holds
\* at most 5 session rows.
C3_AtMostFiveWhenAllReturned ==
    CapQuiescent => \A u \in CapUsers : CountUserSessions(sessions, u) <= SessionLimit

\* C3 witness: two calls raced past the cap (more than 5 rows were held at some
\* moment) and every call has since returned, one of them successfully.
C3_Witness ==
    /\ CapQuiescent
    /\ overCap
    /\ \E p \in Procs : cs[p].pc = "returned" /\ cs[p].err = "nil" /\ cs[p].token # 0

(***************************************************************************)
(* Claims on token validation.                                             *)
(***************************************************************************)
VtRowGone == \A s \in sessions : s.token_hash # HashToken(vt.token)

\* C4: for a session the lookup finds (stored, absolute expiry still ahead),
\* ValidateToken at a time later than last_active_at + IdleTimeout fails with
\* ErrSessionExpired and the row is deleted; at a time not later than that (and
\* not later than expires_at) it succeeds.
C4_IdleExpiry ==
    (vt.pc = "done" /\ vt.row # {}) =>
        LET row == CHOOSE s \in vt.row : TRUE
        IN  /\ (vt.checkAt > row.last_active_at + IdleTimeout)
                  => (vt.result = "expired" /\ VtRowGone)
            /\ (/\ vt.checkAt <= row.last_active_at + IdleTimeout
                /\ vt.checkAt <= row.expires_at)
                  => vt.result = "ok"

\* C4 witness: a session idle for longer than IdleTimeout, its absolute expiry
\* still ahead, was presented and refused as expired.
C4_Witness ==
    /\ vt.pc = "done"
    /\ vt.result = "expired"
    /\ \E s \in vt.row : /\ vt.checkAt > s.last_active_at + IdleTimeout
                         /\ vt.checkAt < s.expires_at

\* C5 (as claimed): for a stored session whose expires_at is earlier than now,
\* ValidateToken fails with ErrSessionExpired and the row is deleted.
C5_AbsoluteExpiryReported ==
    (vt.pc = "done" /\ \E s \in vt.stored : s.expires_at < vt.lookupAt)
        => (vt.result = "expired" /\ VtRowGone)

(***************************************************************************)
(* Claims on Login and Register.                                           *)
(***************************************************************************)
GenericUnauthorized(r) == r.status = 401 /\ r.body = "invalid email or password"

NoSession(r) == r.created = 0 /\ ~r.cookie.set

\* The user row as the request read it.
LockedAtRead(r) == \E u \in r.user : u.locked_until # <<>> /\ u.locked_until[1] > r.at
LapsedAtRead(r) == \E u \in r.user : u.locked_until # <<>> /\ u.locked_until[1] < r.at
HasCredentials(r) == \E u \in r.user : u.provider = "credentials" /\ u.password_hash # <<>>
PasswordMatches(r) ==
    \E u \in r.user : u.password_hash # <<>> /\ VerifyPassword(r.pw, u.password_hash[1])

LoginDone(p) == rq[p].op = "login" /\ rq[p].pc = "done"

\* C6: a Login request has created a session or set the session cookie only
\* if it found the user, the user was not locked when read, the user is a
\* credentials user with a stored hash, and the supplied password verifies
\* against that hash.
C6_SessionOnlyForVerifiedCredentials ==
    \A p \in Procs :
        (rq[p].op = "login" /\ ~NoSession(rq[p])) =>
            /\ rq[p].user # {}
            /\ ~LockedAtRead(rq[p])
            /\ HasCredentials(rq[p])
            /\ PasswordMatches(rq[p])
            /\ \E s \in sessions : s.id = rq[p].created /\ \E u \in rq[p].user : s.user_id = u.id

C6_Witness ==
    \E p \in Procs :
        /\ LoginDone(p) /\ rq[p].status = 200 /\ rq[p].cookie.set
        /\ \E s \in sessions : s.id = rq[p].created
        /\ \E u \in rq[p].user : streak[u.id] = 0

C8_NotFoundLooksLikeWrongPassword ==
    \A p \in Procs :
        LET r == rq[p] IN
        /\ (LoginDone(p) /\ r.user = {} /\ r.status \notin {400, 429})
             => (GenericUnauthorized(r) /\ NoSession(r) /\ r.fakes = 1)
        /\ (LoginDone(p) /\ r.user # {} /\ ~LockedAtRead(r) /\ HasCredentials(r)
                /\ ~PasswordMatches(r))
             => (GenericUnauthorized(r) /\ NoSession(r))

C8_Witness ==
    \E p \in Procs :
        /\ LoginDone(p) /\ rq[p].user = {} /\ rq[p].status = 401
        /\ rq[p].fakes = 1
        /\ users # {}

\* C9: every Login that ends in the generic 401 has performed exactly one
\* password-hash computation.
C9_OneHashPerGeneric401 ==
    \A p \in Procs :
        (LoginDone(p) /\ GenericUnauthorized(rq[p])) => rq[p].hashes = 1

\* C10: a Register step taken by a request whose email already has a user
\* row answers 200 "ok", sets no cookie, appends one register_duplicate
\* audit row and leaves the users table as it was; this covers the request
\* that finds the row at its lookup and the one whose insert hits the unique
\* index.
C10_DuplicateRegisterIsSilent ==
    [][\A p \in Procs :
          (/\ rq[p].op = "register" /\ rq[p].pc \in {"lookup", "create"}
           /\ GetUserByEmail(users, rq[p].email) # {}
           /\ rq'[p] # rq[p])
          => /\ rq'[p].pc = "done"
             /\ rq'[p].status = 200 /\ rq'[p].body = "ok"
             /\ NoSession(rq'[p])
             /\ Len(rq'[p].audit) = Len(rq[p].audit) + 1
             /\ rq'[p].audit[Len(rq'[p].audit)].event = "register_duplicate"
             /\ users' = users]_vars

\* A Register whose insert lost the race for the email has answered.
C10_Witness ==
    \E p \in Procs :
        /\ rq[p].op = "register" /\ rq[p].pc = "done" /\ rq[p].hashes = 1
        /\ rq[p].status = 200 /\ rq[p].user = {}
        /\ Len(rq[p].audit) = 1 /\ rq[p].audit[1].event = "register_duplicate"
        /\ Cardinality(GetUserByEmail(users, rq[p].email)) = 1

\* C11: two Register requests with the same valid input, one that found the
\* email unused and created the user and one that found the email taken, give
\* the client the same status, the same body and the same session-cookie
\* outcome.
C11_RegisterOutcomesIdentical ==
    \A p, q \in Procs :
        (/\ rq[p].op = "register" /\ rq[p].pc = "done" /\ rq[p].status = 200
         /\ rq[q].op = "register" /\ rq[q].pc = "done" /\ rq[q].status = 200
         /\ rq[p].email = rq[q].email /\ rq[p].pw = rq[q].pw
         /\ rq[p].cookieIn = rq[q].cookieIn
         /\ rq[p].user # {} /\ rq[q].user = {})
        => /\ rq[p].status = rq[q].status
           /\ rq[p].body = rq[q].body
           /\ rq[p].cookie.set = rq[q].cookie.set

(***************************************************************************)
(* Claims on the Google callback.                                          *)
(***************************************************************************)
\* C12: a callback whose state parameter differs from the oauth_state cookie
\* is answered at once with a 400: no code exchange is attempted, the users
\* and sessions tables are left as they were, and no session cookie is set.
C12_StateMismatchRejected ==
    [][\A p \in Procs :
          (/\ rq'[p] # rq[p]
           /\ rq'[p].op = "oauth"
           /\ rq'[p].q.state # rq'[p].q.stateCookie)
          => /\ rq'[p].pc = "done" /\ rq'[p].status = 400
             /\ ~rq'[p].exchanged
             /\ NoSession(rq'[p])
             /\ users' = users
             /\ sessions' = sessions]_vars

\* A callback with the code the provider issued and the right verifier, but
\* another state than the cookie's, has been answered.
C12_Witness ==
    \E p \in Procs :
        /\ rq[p].op = "oauth" /\ rq[p].pc = "done"
        /\ rq[p].q.state = "st2" /\ rq[p].q.stateCookie = "st1"
        /\ rq[p].q.code = "code-ok" /\ rq[p].q.verifier = "verifier-ok"
        /\ rq[p].status = 400 /\ rq[p].body = "invalid state"

CallbackOrder == <<"cookies", "state", "exchange", "claims", "check", "upsert", "session">>

\* C13: the checks of a callback are passed in the one order of the flow; a
\* callback has created a session or set the session cookie only after both
\* helper cookies were present, the state matched, the provider granted the
\* exchange of the code with the cookie's verifier, the claims carried a
\* subject and an email, and the upsert resolved the user; a callback that
\* ends otherwise has created no session and set no cookie.
C13_SessionOnlyAfterFullFlow ==
    \A p \in Procs :
        LET r == rq[p] IN
        r.op = "oauth" =>
            /\ \E n \in 0..Len(CallbackOrder) : r.trail = SubSeq(CallbackOrder, 1, n)
            /\ ~NoSession(r) =>
                   /\ r.trail = CallbackOrder
                   /\ r.q.stateCookie # "" /\ r.q.verifier # ""
                   /\ r.q.state = r.q.stateCookie
                   /\ r.exchanged /\ Exchange(r.q.code, r.q.verifier)
                   /\ r.sub # "" /\ r.email # ""
                   /\ \E u \in r.user : u.google_id = <<r.sub>> /\ u.email = r.email
                   /\ \E s \in sessions : s.id = r.created /\ \E u \in r.user : s.user_id = u.id
            /\ (r.pc = "done" /\ r.trail # CallbackOrder) => (NoSession(r) /\ r.status # 302)

C13_Witness ==
    \E p \in Procs :
        /\ rq[p].op = "oauth" /\ rq[p].pc = "done" /\ rq[p].status = 302
        /\ rq[p].cookie.set /\ rq[p].trail = CallbackOrder
        /\ \E s \in sessions : s.id = rq[p].created

\* A row holds the email the callback claims, under another provider or
\* another Google id.
LinkConflict(r) ==
    \E u \in users : u.email = r.email /\ (u.provider # "google" \/ u.google_id # <<r.sub>>)

\* C14: a callback that comes to its email check or to its upsert while a
\* row holds the claimed email under another provider or another Google id
\* is rejected as a conflict, and the users and sessions tables are left as
\* they were; the row may have been inserted by a concurrent request after
\* the callback's email check.
C14_LinkConflictRejected ==
    [][\A p \in Procs :
          (/\ rq[p].op = "oauth" /\ rq[p].pc \in {"check", "upsert"}
           /\ LinkConflict(rq[p])
           /\ rq'[p] # rq[p])
          => /\ rq'[p].pc = "done"
             /\ rq'[p].status = 400 /\ rq'[p].body = "unable to authenticate"
             /\ NoSession(rq'[p])
             /\ users' = users
             /\ sessions' = sessions]_vars

\* A callback passed its email check, then met a credentials row for the
\* email at the upsert and was rejected; the row is as it was inserted.
C14_Witness ==
    \E p \in Procs :
        /\ rq[p].op = "oauth" /\ rq[p].pc = "done" /\ rq[p].status = 400
        /\ rq[p].trail = SubSeq(CallbackOrder, 1, 5)
        /\ NoSession(rq[p])
        /\ \E u \in users : /\ u.email = rq[p].email /\ u.provider = "credentials"
                            /\ u.google_id = <<>> /\ u.password_hash # <<>>

(***************************************************************************)
(* Claims on the gated requests.                                           *)
(***************************************************************************)
\* ValidateToken finds no row for the token: ErrSessionNotFound.
TokenNotFound(tok) == GetSessionByTokenHash(sessions, HashToken(tok), now) = {}

\* C15: when a Change Password served alone has answered 200, the user has
\* exactly one session row, the one of the token in the new session cookie,
\* and no other token issued so far resolves to a session of the user.
C15_PasswordChangeLeavesOneSession ==
    \A p \in Procs :
        LET r == rq[p] IN
        (r.op = "password" /\ r.pc = "done" /\ r.status = 200) =>
            \A u \in r.user :
                /\ r.cookie.set /\ r.cookie.value = r.created
                /\ Cardinality(UserSessions(sessions, u.id)) = 1
                /\ \A s \in UserSessions(sessions, u.id) :
                       s.token_hash = HashToken(r.cookie.value)
                /\ \A tok \in 1..(nextId - 1) :
                       tok # r.cookie.value =>
                           \A s \in GetSessionByTokenHash(sessions, HashToken(tok), now) :
                               s.user_id # u.id
                /\ TokenNotFound(r.cookieIn)

\* The third session of the only user was issued by a Change Password.
C15_Witness ==
    \E p \in Procs :
        /\ rq[p].op = "password" /\ rq[p].pc = "done" /\ rq[p].status = 200
        /\ rq[p].created = 3 /\ rq[p].cookieIn # 0
        /\ Cardinality(users) = 1
        /\ \E u \in users : VerifyPassword(rq[p].newPw, u.password_hash[1])

\* C16: a Logout that passed the gate and the rate limit has deleted the
\* caller's session row, cleared the session cookie and appended exactly two
\* audit rows for the user, session_revoked with reason logout and then
\* logout; the caller's token is then unknown to ValidateToken.
C16_LogoutRevokes ==
    \A p \in Procs :
        LET r == rq[p] IN
        (r.op = "logout" /\ r.pc = "done" /\ r.invoked /\ r.status # 429) =>
            \A s \in r.session :
                /\ r.status = 200 /\ r.body = "ok"
                /\ \A t \in sessions : t.id # s.id /\ t.token_hash # s.token_hash
                /\ r.cookieCleared /\ ~r.cookie.set
                /\ r.audit = <<AuditEntry("session_revoked", s.user_id, "logout"),
                               AuditEntry("logout", s.user_id, "")>>
                /\ TokenNotFound(r.cookieIn)

C16_Witness ==
    \E p \in Procs :
        /\ rq[p].op = "logout" /\ rq[p].pc = "done" /\ rq[p].status = 200
        /\ rq[p].session # {} /\ Len(rq[p].audit) = 2
        /\ sessions # {}

\* C17: the gate has invoked the wrapped handler only for a request with a
\* non-empty session cookie whose session ValidateToken resolved (found by
\* the token's hash, neither idle nor past its expiry when tested), and the
\* handler's context holds that session and its user; a request without a
\* cookie, or whose token is unknown or expired, is answered 401 with the
\* session cookie cleared and the handler not invoked.
C17_GateInvokesOnlyValidated ==
    \A p \in Procs :
        LET r == rq[p] IN
        r.op \in GatedOps =>
            /\ r.invoked =>
                   /\ r.cookieIn # 0
                   /\ \E s \in r.session :
                          /\ s.token_hash = HashToken(r.cookieIn)
                          /\ s.last_active_at + IdleTimeout >= r.at
                          /\ s.expires_at >= r.at
                          /\ \E u \in r.user : u.id = s.user_id
            /\ (r.pc = "done" /\ ~r.invoked) =>
                   /\ r.status = 401 /\ r.body = "unauthorized"
                   /\ r.cookieCleared /\ ~r.cookie.set
            /\ (r.pc # "idle" /\ r.cookieIn = 0) => (r.pc = "done" /\ ~r.invoked)
            /\ (r.pc \in {"handler", "cpupdate", "cprevoke", "session"}) => r.invoked

\* A request whose session had gone idle was turned away.
C17_Witness ==
    \E p \in Procs :
        /\ rq[p].op \in GatedOps /\ rq[p].pc = "done" /\ ~rq[p].invoked
        /\ rq[p].status = 401 /\ rq[p].cookieCleared
        /\ \E s \in rq[p].session : s.last_active_at + IdleTimeout < rq[p].at

(***************************************************************************)
(* Claims on the rate limiter.                                             *)
(***************************************************************************)

\* The earlier calls of a key's history that call n still finds in its window.
InWindow(h, n) == {j \in 1..(n - 1) : h[j].at > h[n].at - RuleWindow}

\* C18: with sequential calls on one key and a reachable store, counting from
\* a call k that finds its window empty, every call among the first RuleLimit
\* made less than RuleWindow after k is allowed, the call number RuleLimit + 1
\* made less than RuleWindow after k is denied, and a call made more than
\* RuleWindow after the previous call on the key is allowed.
C18_SlidingWindowSequential ==
    \A key \in LimiterKeys :
        LET h == history[key] IN
        /\ \A k \in 1..Len(h) : \A n \in k..Len(h) :
              (InWindow(h, k) = {} /\ h[n].at - h[k].at < RuleWindow) =>
                  /\ (n < k + RuleLimit) => h[n].allowed
                  /\ (n = k + RuleLimit) => ~h[n].allowed
        /\ \A n \in 2..Len(h) :
              (h[n].at - h[n - 1].at > RuleWindow) => h[n].allowed

\* A key has seen RuleLimit allowed calls, a denied one inside the window, and
\* an allowed one more than a window after the denied one.
C18_Witness ==
    \E key \in LimiterKeys :
        LET h == history[key] IN
        /\ Len(h) = RuleLimit + 2
        /\ \A n \in 1..RuleLimit : h[n].allowed
        /\ ~h[RuleLimit + 1].allowed
        /\ h[RuleLimit + 1].at - h[1].at < RuleWindow
        /\ h[RuleLimit + 2].at - h[RuleLimit + 1].at > RuleWindow
        /\ h[RuleLimit + 2].allowed

C20_AtMostLimitAllowed ==
    \A key \in LimiterKeys :
        LET h == history[key] IN
        \A i \in 1..Len(h) :
            Cardinality({j \in 1..Len(h) :
                            /\ h[j].allowed
                            /\ h[i].at <= h[j].at
                            /\ h[j].at < h[i].at + RuleWindow}) <= RuleLimit

\* More than RuleLimit calls were answered on a key, exactly RuleLimit of
\* them were allowed, and a call that started while the pipeline of another
\* one was running was denied.
C20_Witness ==
    \E key \in LimiterKeys :
        LET h == history[key] IN
        /\ Len(h) > RuleLimit
        /\ Cardinality({j \in 1..Len(h) : h[j].allowed}) = RuleLimit
        /\ \E n \in 1..Len(h) : h[n].raced /\ ~h[n].allowed

(***************************************************************************)
(* Claims on email verification and on the user rows.                      *)
(***************************************************************************)

\* C21 (as claimed): a Verify Email request that finishes while the row it
\* read is still the stored one answers 200 and leaves that user verified
\* with both token columns NULL when its token matches a user whose expiry
\* is not in the past; otherwise it answers 400 and changes no user row.
C21_VerifyEmail ==
    [][\A p \in Procs :
          LET r == rq'[p]
              m == GetUserByEmailVerificationTokenHash(users, HashToken(r.token))
          IN  (/\ r.op = "verify" /\ r.pc = "done" /\ rq[p].pc # "done"
               /\ rq[p].pc = "verify" => rq[p].user = m) =>
                  IF m # {} /\ \A u \in m : u.email_verification_expires_at[1] >= now
                  THEN /\ r.status = 200
                       /\ \A u \in m : \E v \in users' :
                             /\ v.id = u.id
                             /\ v.email_verified
                             /\ v.email_verification_token_hash = <<>>
                             /\ v.email_verification_expires_at = <<>>
                  ELSE /\ r.status = 400
                       /\ users' = users]_vars

\* C22: a request served a second time from the same state answers with the
\* same status, body and cookies and leaves the same users and sessions rows
\* as the first time, whichever of its audit inserts and mail sends failed
\* in either run.
C22_SideEffectsNeverChangeOutcome ==
    \A p \in Procs :
        (twin.phase = "second" /\ rq[p].pc = "done") =>
            /\ rq[p].status = twin.status
            /\ rq[p].body = twin.body
            /\ rq[p].cookie = twin.cookie
            /\ rq[p].cookieCleared = twin.cookieCleared
            /\ users = twin.usersAfter
            /\ sessions = twin.sessionsAfter

\* A Register request created its user in both runs, and the audit rows the
\* two runs left differ.
C22_Witness ==
    \E p \in Procs :
        /\ twin.phase = "second"
        /\ rq[p].pc = "done"
        /\ rq[p].op = "register"
        /\ rq[p].created # 0
        /\ rq[p].audit # twin.audit
        /\ Len(rq[p].audit) = Len(twin.audit)

\* C23: every user row with provider credentials has a password hash, and
\* every user row with provider google has a google_id and no password hash.
C23_UserRowInvariant ==
    \A u \in users :
        /\ u.provider = "credentials" => u.password_hash # <<>>
        /\ u.provider = "google" => (u.google_id # <<>> /\ u.password_hash = <<>>)

\* A credentials row that was verified, given an avatar and a new password,
\* next to a Google row.
C23_Witness ==
    /\ \E u \in users :
          /\ u.provider = "credentials"
          /\ u.email_verified
          /\ u.picture # <<>>
          /\ u.password_hash = <<HashPassword(PwOther, "salt2")>>
    /\ \E u \in users : u.provider = "google"

\* C24: when a successful Login or Register request carried the session
\* cookie of a token issued before it, no session row holds that token once
\* the request has completed, so the token no longer validates.
C24_RotationOnLoginAndRegister ==
    \A p \in Procs :
        LET r == rq[p]
        IN  (/\ r.op \in {"login", "register"} /\ r.pc = "done" /\ r.created # 0
             /\ r.cookieIn # 0 /\ r.cookieIn < r.created) =>
                /\ \A s \in sessions : s.token_hash # HashToken(r.cookieIn)
                /\ TokenNotFound(r.cookieIn)

\* C25: no hash computation (HashPassword, VerifyPassword, FakePasswordHash)
\* of a Register, Login or Change Password request receives a plaintext of
\* more than 1000 characters, the current password of Change Password
\* included.
C25_NoHashOfLongPlaintext ==
    \A p \in Procs :
        rq[p].op \in {"register", "login", "password"} => rq[p].hashedLen <= 1000

\* scheme://host[:port] of an absolute URL; "" for anything else.
Origin(url) ==
    CASE url \in {"https://app.example", "https://app.example/home"} -> "https://app.example"
      [] url = "https://evil.example/home" -> "https://evil.example"
      [] url = "http://localhost:3400" -> "http://localhost:3400"
      [] OTHER -> ""

\* C26: the target of the redirect a successful Google callback answers with
\* is "/" or a URL of the origin of the application base URL; a post-login
\* redirect URL of another origin is never the target.
C26_RedirectSameOrigin ==
    \A p \in Procs :
        (rq[p].op = "oauth" /\ rq[p].pc = "done" /\ rq[p].status = 302) =>
            \/ rq[p].body = "/"
            \/ Origin(rq[p].body) = Origin(cfg.AppBaseURL)

\* What ValidatePassword answered for the password of a Register request
\* that reached it: the message of the 400, or "" when the request went on.
PolicyVerdict(r) ==
    IF r.pc = "done" /\ r.status = 400 /\ r.trail = <<>> /\ r.hashes = 0 THEN r.body ELSE ""

\* The first rule the value breaks, in the order min length, max length,
\* uppercase, digit, special character, deny-list; "" when it breaks none.
FirstBrokenRule(chars, fill, denyList) ==
    LET n == Len(chars) + fill
    IN  IF n < 8 THEN "password must be at least 8 characters"
        ELSE IF n > 1000 THEN "password must be at most 1000 characters"
        ELSE IF ~\E i \in DOMAIN chars : IsUpper(chars[i])
        THEN "password must include an uppercase letter"
        ELSE IF ~\E i \in DOMAIN chars : chars[i] \in Digits
        THEN "password must include a number"
        ELSE IF \A i \in DOMAIN chars :
                    IsUpper(chars[i]) \/ IsLower(chars[i]) \/ chars[i] \in Digits
        THEN "password must include a special character"
        ELSE IF <<ToLower(chars), fill>> \in denyList THEN "password is too common"
        ELSE ""

\* The value is a deny-list entry up to the case of its letters.
CaseVariantOfEntry(chars, fill, denyList) ==
    \E e \in denyList : ToLower(e[1]) = ToLower(chars) /\ e[2] = fill

\* C27: ValidatePassword accepts a value iff its length is in [8,1000], it
\* holds an uppercase letter, a digit and a character outside the letters
\* and digits, and its lower-cased form is not on the deny-list; the message
\* is that of the first broken rule in the order min length, max length,
\* uppercase, digit, special character, deny-list; and every case variant
\* of a deny-list entry that passes the class rules is rejected as too
\* common.
C27_ValidatePassword ==
    \A p \in Procs :
        LET r == rq[p]
            chars == r.pw.text[1]
            fill == r.pw.text[2]
        IN  r.op = "register" =>
              /\ PolicyVerdict(r) = FirstBrokenRule(chars, fill, cfg.commonPasswords)
              /\ (/\ CaseVariantOfEntry(chars, fill, cfg.commonPasswords)
                  /\ FirstBrokenRule(chars, fill, {}) = "") =>
                     PolicyVerdict(r) = "password is too common"

\* No session row holds the token.
RowGone(tok) == \A s \in sessions : s.token_hash # HashToken(tok)

\* C28: once the row of an issued token has been deleted (by logout,
\* rotation or password change, by the idle test of a validation, by the
\* session cap), no row holds the token in any later state, and every
\* ValidateToken call that presents the token from then on fails with
\* ErrSessionNotFound.
C28_RevokedIsTerminal ==
    [][\A tok \in 1..MaxCalls :
          (tok < nextId /\ RowGone(tok)) =>
              /\ \A s \in sessions' : s.token_hash # HashToken(tok)
              /\ (vt.pc = "idle" /\ vt'.pc # "idle" /\ vt'.token = tok) =>
                     (vt'.pc = "done" /\ vt'.result = "not_found")]_vars

\* A CreateSession call found the row of the first token and the cap
\* evicted it; a validation of the token after that was refused.
C28_Witness ==
    /\ \E p \in Procs :
          /\ cs[p].pc = "returned"
          /\ \E s \in cs[p].before : s.token_hash = HashToken(1)
    /\ RowGone(1)
    /\ vt.pc = "done" /\ vt.result = "not_found" /\ vt.token = 1 /\ vt.stored = {}

\* C29: a successful ValidateToken changes last_active_at of the row and
\* nothing else; expires_at stays what CreateSession set, the time of
\* creation plus the maximum age; and no validation succeeds at a time later
\* than expires_at of the row, however often the token was validated before.
C29_ValidationKeepsExpiry ==
    [][/\ \A s \in sessions, t \in sessions' : s.id = t.id => t.expires_at = s.expires_at
       /\ \A t \in sessions' :
             (\A s \in sessions : s.id # t.id) => t.expires_at = now + SessionMaxAge
       /\ (vt.pc = "check" /\ vt'.pc = "done" /\ vt'.result = "ok") =>
             /\ \A r \in vt.row : now <= r.expires_at
             /\ \A t \in sessions' :
                   \E s \in sessions : t = [s EXCEPT !.last_active_at = t.last_active_at]
             /\ \A s \in sessions :
                   \E t \in sessions' : t = [s EXCEPT !.last_active_at = t.last_active_at]]_vars

\* A token kept alive by validations up to its absolute expiry, refused
\* after it.
C29_Witness ==
    /\ vt.pc = "done" /\ vt.result = "not_found"
    /\ \E s \in vt.stored :
          /\ s.last_active_at + IdleTimeout >= now
          /\ s.last_active_at > s.expires_at - SessionMaxAge + IdleTimeout
          /\ now > s.expires_at

\* C30: every callback that arrives with both helper cookies has both
\* cleared in its response whatever the outcome, an empty or mismatching
\* state or code parameter included.
C30_HelperCookiesSingleUse ==
    \A p \in Procs :
        (/\ rq[p].op = "oauth" /\ rq[p].pc = "done"
         /\ rq[p].q.stateCookie # "" /\ rq[p].q.verifier # "") => rq[p].helpersCleared

(***************************************************************************)
(* Claims on the termination of the cap loop.                              *)
(***************************************************************************)
\* The call of p is inside enforceSessionLimit's loop.
InCapLoop(p) == cs[p].pc \in {"count", "oldest", "delete"}

\* Every call of enforceSessionLimit that is in its loop leaves the loop.
CapLoopReturns == \A p \in Procs : InCapLoop(p) ~> ~InCapLoop(p)

\* A loop that observes a count below the limit returns nil at once: the
\* first call goes on to the insert, the second returns to the caller.
CapLoopReturnsBelowLimit ==
    [][\A p \in Procs :
          (/\ cs[p].pc = "count"
           /\ cs'[p] # cs[p]
           /\ CountUserSessions(sessions, cs[p].user) < SessionLimit)
          => \/ cs[p].phase = "pre" /\ cs'[p].pc = "insert"
             \/ cs[p].phase = "post" /\ cs'[p].pc = "returned" /\ cs'[p].err = "nil"]_vars

\* C31 (as claimed): every call of enforceSessionLimit returns, it returns nil
\* as soon as it observes a count below the limit, and each iteration that
\* does not return deletes exactly one session row of that user.
C31_EachIterationDeletesOne ==
    /\ CapLoopReturns
    /\ CapLoopReturnsBelowLimit
    /\ [][\A p \in Procs :
             (cs[p].pc = "delete" /\ cs'[p].pc = "count")
             => /\ Cardinality(sessions \ sessions') = 1
                /\ \A s \in sessions \ sessions' : s.user_id = cs[p].user]_vars

\* C31 (amended): every call of enforceSessionLimit returns after finitely many
\* iterations and returns nil as soon as it observes a count below the limit;
\* each iteration that does not return issues one DeleteSession for the oldest
\* row it read, which removes that row of the user if it is still stored and
\* no row at all if a concurrent call has deleted it meanwhile.
C31_LoopTerminates ==
    /\ CapLoopReturns
    /\ CapLoopReturnsBelowLimit
    /\ [][\A p \in Procs :
             (cs[p].pc = "delete" /\ cs'[p].pc = "count")
             => /\ sessions \ sessions' = {s \in sessions : s.id = cs[p].oldest}
                /\ sessions' \subseteq sessions
                /\ Cardinality(sessions \ sessions') <= 1
                /\ \A s \in sessions \ sessions' : s.user_id = cs[p].user]_vars

\* C31 witness: a call is about to delete the oldest row it read, and a
\* concurrent call has deleted that row already.
C31_Witness ==
    \E p \in Procs :
        /\ cs[p].pc = "delete"
        /\ \A s \in sessions : s.id # cs[p].oldest
        /\ \E q \in Procs \ {p} : InCapLoop(q) \/ cs[q].pc = "returned"

(***************************************************************************)
(* Claims on the row of a returned token.                                  *)
(***************************************************************************)
\* C34 (as claimed): when CreateSession returns a token, the row with the hash
\* of that token is stored: no cap enforcement, the caller's own or that of a
\* concurrent call for the same user, has deleted it.
C34_ReturnedTokenHasRow ==
    [][\A p \in Procs :
          (cs[p].pc # "returned" /\ cs'[p].pc = "returned" /\ cs'[p].err = "nil")
          => \E s \in sessions' : /\ s.token_hash = HashToken(cs'[p].token)
                                   /\ s.user_id = cs'[p].user]_vars

(***************************************************************************)
(* Claims on mail and the response.                                        *)
(***************************************************************************)
\* Worker p is inside mailer.Send.
Sending(p) == rq[p].pc = "sending"

\* C32 (as claimed): in Register and in Login the response does not wait for
\* the mailer's Send to return: a request whose Send is in progress gets its
\* response written, whether or not Send ever returns.
C32_ResponseDoesNotWaitForSend ==
    \A p \in Procs : Sending(p) ~> rq[p].pc = "done"

(***************************************************************************)
(* Claims on repeated logout.                                              *)
(***************************************************************************)
\* Worker q holds a Logout exchange that was answered 200 for cookie tok.
LoggedOut(q, tok) ==
    /\ rq[q].op = "logout" /\ rq[q].pc = "done" /\ rq[q].status = 200
    /\ rq[q].cookieIn = tok

\* C33: a Logout request sent again with the cookie of an answered Logout
\* changes neither the sessions nor the users table at any of its steps, and
\* its response clears the session cookie again.
C33_LogoutIdempotent ==
    [][\A p \in Procs, q \in Procs, tok \in 1..MaxAuthSessions :
          (/\ p # q
           /\ LoggedOut(q, tok)
           /\ rq'[p] # rq[p]
           /\ rq'[p].op = "logout" /\ rq'[p].cookieIn = tok)
          => /\ sessions' = sessions
             /\ users' = users
             /\ rq'[p].pc = "done" => rq'[p].cookieCleared]_vars

\* C33 witness: the second Logout with the same cookie has been answered while
\* the first exchange, answered 200, is still at hand.
C33_Witness ==
    \E p \in Procs, q \in Procs, tok \in 1..MaxAuthSessions :
        /\ p # q
        /\ LoggedOut(q, tok)
        /\ rq[p].op = "logout" /\ rq[p].cookieIn = tok
        /\ rq[p].pc = "done" /\ rq[p].cookieCleared
        /\ rq[p].status = 401
        /\ \E u \in users : u.provider = "credentials"

(***************************************************************************)
(* Claims on concurrent logins and the lock.                               *)
(***************************************************************************)
\* The stored locked_until of user id is in the future at time t.
LockedAt(rows, id, t) ==
    \E u \in rows : u.id = id /\ u.locked_until # <<>> /\ u.locked_until[1] > t

\* C35 (as claimed): no Login request creates a session at a moment when the
\* user's stored locked_until is in the future.
C35_NoSessionWhileLocked ==
    [][\A p \in Procs :
          (/\ rq[p].op = "login" /\ rq[p].pc = "session"
           /\ sessions' # sessions)
          => \A u \in rq[p].user : ~LockedAt(users, u.id, now)]_vars


\* C36 (as claimed): in every reachable state failed_login_attempts of every
\* user is between 0 and 10 inclusive, and locked_until is set to a non-null
\* value only by a Login request that observed failed_login_attempts >= 10
\* (a request at "lock": its IncrementFailedLoginAttempts returned 10 or more).
C36_CounterAndLockBounds ==
    /\ [](\A u \in users : /\ u.failed_login_attempts >= 0
                           /\ u.failed_login_attempts <= MaxFailedLogins)
    /\ [][\A u \in users, v \in users' :
             (u.id = v.id /\ v.locked_until # <<>> /\ v.locked_until # u.locked_until)
             => \E p \in Procs :
                   /\ rq[p].op = "login" /\ rq[p].pc = "lock"
                   /\ u.id \in {w.id : w \in rq[p].user}]_vars

(***************************************************************************)
(* Claims on the life of a verification token.                             *)
(***************************************************************************)
\* Verification tokens whose hash is stored on some row of user id: the tokens
\* HandleVerifyEmail can find.
StoredTokens(rows, id) ==
    {t \in VerifyTokens :
        \E u \in GetUserByEmailVerificationTokenHash(rows, HashToken(t)) : u.id = id}

\* C37 (as claimed): at most one verification token per user is usable at any
\* time: once a new token is stored for a user no earlier token of that user
\* is found any more, and once a Verify Email request has answered 200 for a
\* token, that token is found on no row, so that every later use answers 400.
C37_OneTokenUsedOnce ==
    /\ [](\A u \in users : Cardinality(StoredTokens(users, u.id)) <= 1)
    /\ [][\A u \in users, v \in users' :
             (/\ u.id = v.id
              /\ v.email_verification_token_hash # <<>>
              /\ v.email_verification_token_hash # u.email_verification_token_hash)
             => StoredTokens(users, u.id) \cap StoredTokens(users', u.id) = {}]_vars
    /\ [][\A p \in Procs :
             (/\ rq[p].op = "verify" /\ rq[p].pc = "verify"
              /\ rq'[p].pc = "done" /\ rq'[p].status = 200)
             => GetUserByEmailVerificationTokenHash(users', HashToken(rq[p].token)) = {}]_vars

(***************************************************************************)
(* Claims on a failed password change.                                     *)
(***************************************************************************)
\* Which session rows exist: every column but last_active_at, which the
\* session check in front of the handler refreshes.
RowsHeld(rows) ==
    {<<s.id, s.user_id, s.token_hash, s.expires_at, s.created_at>> : s \in rows}

PasswordHashes(rows) == {<<u.id, u.password_hash>> : u \in rows}

\* C38: a Change Password request that the handler answers 400 (the account
\* is not a credentials account, the current password does not verify, or the
\* new password breaks the policy) writes nothing: users and sessions are the
\* same after the handler as before it, the request sets and clears no cookie,
\* and the session check in front of the handler adds and removes no row and
\* changes no password hash.
C38_FailedChangeWritesNothing ==
    /\ [][\A p \in Procs :
             (/\ rq[p].op = "password" /\ rq[p].pc = "handler"
              /\ rq'[p].pc = "done" /\ rq'[p].status = 400)
             => /\ users' = users
                /\ sessions' = sessions
                /\ rq'[p].cookie = NoCookie
                /\ ~rq'[p].cookieCleared]_vars
    /\ [][\A p \in Procs :
             (/\ rq'[p].op = "password" /\ rq'[p] # rq[p]
              /\ rq'[p].pc \in {"gate", "gatecheck", "handler"})
             => /\ RowsHeld(sessions') = RowsHeld(sessions)
                /\ PasswordHashes(users') = PasswordHashes(users)]_vars

\* C38 witness: a Google account's Change Password request was answered 400
\* while the account holds a session.
C38_Witness ==
    \E p \in Procs :
        /\ rq[p].op = "password" /\ rq[p].pc = "done" /\ rq[p].status = 400
        /\ rq[p].invoked
        /\ \E u \in rq[p].user : /\ u.provider = "google"
                                 /\ \E s \in sessions : s.user_id = u.id

(***************************************************************************)
(* Claims on requests the limiter turns away.                              *)
(***************************************************************************)
LimitedOps == {"register", "login", "logout", "password", "resend"}

\* C39: a request on Register, Login, Logout, Change Password or Resend
\* Verification that is answered 429 leaves the users table as it was (no
\* failed_login_attempts increment), creates and deletes no session row,
\* carries no audit entry and sets or clears no cookie; after a 429 on Logout
\* the caller's session row is still stored.
C39_RateLimitedChangesNothing ==
    /\ [][\A p \in Procs :
             (/\ rq'[p].op \in LimitedOps
              /\ rq[p].pc # "done" /\ rq'[p].pc = "done" /\ rq'[p].status = 429)
             => /\ users' = users
                /\ sessions' = sessions
                /\ rq'[p].audit = <<>>
                /\ rq'[p].cookie = NoCookie
                /\ ~rq'[p].cookieCleared
                /\ rq'[p].op = "logout"
                      => GetSessionByTokenHash(sessions', HashToken(rq'[p].cookieIn), now) # {}]_vars
    /\ [][\A p \in Procs :
             (/\ rq'[p].op \in {"logout", "password", "resend"} /\ rq'[p] # rq[p]
              /\ rq'[p].pc \in {"gate", "gatecheck", "handler"})
             => /\ users' = users
                /\ RowsHeld(sessions') = RowsHeld(sessions)
                /\ rq'[p].audit = <<>>]_vars

\* C39 witness: a Logout that passed the session check was answered 429, and
\* the caller's session row is stored.
C39_Witness ==
    \E p \in Procs :
        /\ rq[p].op = "logout" /\ rq[p].pc = "done" /\ rq[p].status = 429
        /\ rq[p].invoked
        /\ GetSessionByTokenHash(sessions, HashToken(rq[p].cookieIn), now) # {}

(***************************************************************************)
(* Claims on what the limiter counts.                                      *)
(***************************************************************************)
\* C40: every Allow call is recorded before it counts, denied calls too: a
\* call at time t on a key is allowed exactly when the calls on that key with
\* a timestamp greater than t - RuleWindow, allowed or denied and this one
\* included, number at most the limit; so a client that goes on calling while
\* denied stays denied.
C40_DeniedCallsCount ==
    \A key \in AllowKeys :
        LET h == history[key] IN
        \A n \in 1..Len(h) :
            ~h[n].err =>
                (h[n].allowed <=> Cardinality(InWindow(h, n)) + 1 <= TightLimit)

\* C40 witness: a call was denied although fewer than the limit of the calls
\* in its window had been allowed: the denied calls before it filled the
\* window.
C40_Witness ==
    \E key \in AllowKeys :
        LET h == history[key] IN
        \E n \in 1..Len(h) :
            /\ ~h[n].allowed /\ ~h[n].err
            /\ Cardinality({j \in InWindow(h, n) : h[j].allowed}) < TightLimit
            /\ \E j \in InWindow(h, n) : ~h[j].allowed

====
